---- MODULE Spec2Model ----
(***************************************************************************)
(* Model of politeiad's git backend (politeiad/backend/gitbe/gitbe.go):    *)
(* the staging ("unvetted") and publication ("vetted") repositories, the   *)
(* filesystem lock, the record operations, the anchor cron, the anchor     *)
(* confirmation watcher and the startup fsck.                              *)
(***************************************************************************)
EXTENDS Integers, Sequences, FiniteSets, TLC

\* ------------------------------------------------------------------ bounds
Tokens == {"t1", "t2"}
CTokens == {"t1"}
MaxCommits == 4

\* --------------------------------------------------------------- constants
LockedToken == "t2"

MDStatusUnvetted == "Unvetted"
MDStatusVetted == "Vetted"
MDStatusCensored == "Censored"
MDStatusIterationUnvetted == "UnvettedIteration"
MDStatusLocked == "Locked"
MDStatus ==
  {MDStatusUnvetted, MDStatusVetted, MDStatusCensored,
   MDStatusIterationUnvetted, MDStatusLocked}

Tasks == {"client", "cron", "watcher", "fsck"}

Master == "master"
TmpName(t) == t \o "_tmp"
TmpNames == {TmpName(t) : t \in Tokens}
BranchNames == Tokens \cup TmpNames
TokenOf(b) == IF b \in Tokens THEN b ELSE CHOOSE t \in Tokens : TmpName(t) = b

\* Errors returned at the backend boundary.
OK == "ok"
ErrShutdown == "Shutdown"
ErrRecordNotFound == "RecordNotFound"
ErrRecordLocked == "RecordLocked"
ErrNoChanges == "NoChanges"
ErrGit == "VersionedStoreError"
ErrStatus == "CanNotUpdateStatus"
ErrFileNotFound == "FileNotFound"
ErrEmpty == "Empty"
ErrNothingToDo == "NothingToDo"
ErrTimestamp == "TimestampAuthorityError"
ErrNotEnoughConfirmations == "NotEnoughConfirmations"
StateTransitionError(from, to) == "StateTransitionError " \o from \o " -> " \o to

\* ------------------------------------------------------------ record content
\* payload/<name> files are pairs <<name, payload>>; the metadata stream
\* files <id>.metadata.txt are pairs <<id as written in the file name, the
\* sequence of the chunks written to the file>>.
NoRec == [status |-> "none", version |-> 0, files |-> {}, md |-> {}, merkle |-> {}]

Digest(payload) == <<"sha256", payload>>

\* The digests of a set of files, one per file name.
Hashes(files) ==
  [n \in {f[1] : f \in files} |-> Digest((CHOOSE f \in files : f[1] = n)[2])]

\* merkle.Root over a list of digests: an injective image of the digest bag.
MerkleRoot(hashes) ==
  {<<hashes[n], Cardinality({m \in DOMAIN hashes : hashes[m] = hashes[n]})>> :
     n \in DOMAIN hashes}

WriteFiles(files, fa) ==
  {f \in files : \A g \in fa : g[1] # f[1]} \cup fa

RemoveFiles(files, fd) == {f \in files : f[1] \notin fd}

MDPayload(md, id) ==
  IF \E m \in md : m[1] = id THEN (CHOOSE m \in md : m[1] = id)[2] ELSE <<>>

\* fmt.Sprintf("%02v", id): the decimal digits of a stream id, at least two.
RECURSIVE FormatUint(_)
FormatUint(n) ==
  IF n < 10 THEN <<n>> ELSE Append(FormatUint(n \div 10), n % 10)

mdFileID(id) == IF id < 10 THEN <<0, id>> ELSE FormatUint(id)

\* strconv.ParseUint(ids, 10, 64)
RECURSIVE ParseUint(_)
ParseUint(ds) ==
  IF Len(ds) = 0 THEN 0
  ELSE 10 * ParseUint(SubSeq(ds, 1, Len(ds) - 1)) + ds[Len(ds)]

\* The content of a file written in chunks.
RECURSIVE FileContent(_)
FileContent(chunks) ==
  IF Len(chunks) = 0 THEN "" ELSE Head(chunks) \o FileContent(Tail(chunks))

loadMDStreamsMutant(md) ==
  {<<ParseUint(Tail(m[1])), FileContent(m[2])>> : m \in md}

\* loadMDStreams: the id parsed from the name and the content of every
\* <id>.metadata.txt of the record's directory.
loadMDStreams(md) == {<<ParseUint(m[1]), FileContent(m[2])>> : m \in md}

\* loadRecord: the name and the payload of every file of payload/.
loadRecord(files) == files

\* _getRecord: the record of a directory of the working tree, as returned.
_getRecord(rec, includeFiles) ==
  [rec EXCEPT !.md = loadMDStreams(@),
              !.files = IF includeFiles THEN loadRecord(@) ELSE {}]

\* ----------------------------------------------------------------- state
VARIABLES
  lock,       \* holder of the filesystem lock, "none" when free
  shutdown,   \* g.shutdown
  exitClosed, \* g.exit has been closed
  pc,         \* position of every task
  ret,        \* what the operation in progress of each task is returning
  vlog,       \* publication master, oldest commit first
  vbr,        \* branches pushed to the publication repo and not yet deleted
  vdirty,     \* publication working tree has uncommitted changes
  ulen,       \* staging master is the first ulen commits of vlog
  ubr,        \* staging branches
  ucur,       \* branch checked out in staging
  udirty,     \* staging working tree has uncommitted changes
  db,         \* Anchor State DB
  vrs,        \* verify replies gathered by the watcher and by fsck
  udirs,      \* names of the directories newUniqueID made in the staging tree
  issued,     \* history: the ids newUniqueID has returned, oldest first
  gitDigests  \* fsck: the precious digests its walk has collected

vars ==
  <<lock, shutdown, exitClosed, pc, ret, vlog, vbr, vdirty, ulen, ubr,
    ucur, udirty, db, vrs, udirs, issued, gitDigests>>

repoVars == <<vlog, vbr, vdirty, ulen, ubr, ucur, udirty, udirs>>

\* The two repositories as one value, for the operators that transform them.
Repo ==
  [vlog |-> vlog, vbr |-> vbr, vdirty |-> vdirty, ulen |-> ulen, ubr |-> ubr,
   ucur |-> ucur, udirty |-> udirty, udirs |-> udirs]

SetRepo(r) ==
  /\ vlog' = r.vlog
  /\ vbr' = r.vbr
  /\ vdirty' = r.vdirty
  /\ ulen' = r.ulen
  /\ ubr' = r.ubr
  /\ ucur' = r.ucur
  /\ udirty' = r.udirty
  /\ udirs' = r.udirs

NoBranch == [ex |-> FALSE, base |-> 0, commits |-> <<>>]

\* A commit: its subject kind, the record it touches, the record's content
\* after it, and (anchor commits) the merkle root its subject names.
Commit(kind, tok, rec, mr) == [kind |-> kind, tok |-> tok, rec |-> rec, mr |-> mr]

\* Content of record tok in the tree of the first n commits of log.
RECURSIVE TreeAt(_, _, _)
TreeAt(log, n, tok) ==
  IF n = 0 THEN NoRec
  ELSE IF log[n].tok = tok THEN log[n].rec
  ELSE TreeAt(log, n - 1, tok)

VettedRec(r, tok) == TreeAt(r.vlog, Len(r.vlog), tok)
UMasterRec(r, tok) == TreeAt(r.vlog, r.ulen, tok)

\* Content of record tok on staging branch b.
BranchRec(r, b, tok) ==
  LET br == r.ubr[b]
      mine == SelectSeq(br.commits, LAMBDA c : c.tok = tok)
  IN IF Len(mine) > 0 THEN mine[Len(mine)].rec
     ELSE TreeAt(r.vlog, br.base, tok)

\* Content of record tok in the staging working tree.
UWorkRec(r, tok) ==
  IF r.ucur = Master THEN UMasterRec(r, tok) ELSE BranchRec(r, r.ucur, tok)

\* What an operation returned: the operation, its token and requested status,
\* the error, the record handed back, the commands of the store that failed
\* under it, and (New, UpdateUnvettedRecord) the content the caller submitted.
Ret(op, tok, to, err, rec, flt) ==
  [op |-> op, tok |-> tok, to |-> to, err |-> err, rec |-> rec,
   faulted |-> flt # {}, fault |-> flt, arg |-> <<>>]

NoRet == Ret("none", "none", "none", OK, NoRec, {})

EmptyDB == [last |-> <<>>, unconfirmed |-> <<>>, anchors |-> {}]

Init ==
  /\ lock = "none"
  /\ shutdown = FALSE
  /\ exitClosed = FALSE
  /\ pc = [t \in Tasks |->
             CASE t = "client" -> "idle"
               [] t = "cron" -> "idle"
               [] t = "watcher" -> "wait"
               [] t = "fsck" -> "done"]
  /\ ret = [t \in Tasks |-> NoRet]
  /\ vlog = <<>>
  /\ vbr = {}
  /\ vdirty = FALSE
  /\ ulen = 0
  /\ ubr = [b \in BranchNames |-> NoBranch]
  /\ ucur = Master
  /\ udirty = FALSE
  /\ db = EmptyDB
  /\ vrs = [t \in Tasks |-> <<>>]
  /\ udirs = {}
  /\ issued = <<>>
  /\ gitDigests = {}

\* ------------------------------------------------------- versioned store
\* git checkout <name>: switches to branch <name> when it exists; when no
\* such branch exists but <name> is a path of the working tree, git restores
\* that path and stays on the current branch; otherwise it fails.
gitCheckoutOK(r, name) ==
  \/ name = Master
  \/ r.ubr[name].ex
  \/ (name \in Tokens /\ UWorkRec(r, name) # NoRec)

gitCheckout(r, name) ==
  IF name = Master \/ r.ubr[name].ex THEN [r EXCEPT !.ucur = name] ELSE r

gitBranchNow(r) == r.ucur

\* git pull --ff-only --rebase: needs the upstream of the current branch.
gitPullOK(r) == r.ucur = Master

gitPull(r) == [r EXCEPT !.ulen = Len(r.vlog)]

\* git checkout -b <name>, from the head of staging master.
gitNewBranch(r, name) ==
  [r EXCEPT !.ubr[name] = [ex |-> TRUE, base |-> r.ulen, commits |-> <<>>],
            !.ucur = name]

gitCommit(r, c) ==
  [r EXCEPT !.ubr[r.ucur].commits = Append(@, c), !.udirty = FALSE]

gitStash(r) == [r EXCEPT !.udirty = FALSE]

gitBranchDeleteOK(r, name) == r.ubr[name].ex /\ r.ucur # name

gitBranchDelete(r, name) == [r EXCEPT !.ubr[name] = NoBranch]

gitBranches(r) == {b \in BranchNames : r.ubr[b].ex}

Result(r, err, rec) == [r |-> r, err |-> err, rec |-> rec]

Dirty(r) == [r EXCEPT !.udirty = TRUE]

\* ------------------------------------------------------------ record store
\* updateMetadata: overwrite replaces a stream, append extends it.
updateMetadata(md, mdAppend, mdOverwrite) ==
  LET touched == {mdFileID(m[1]) : m \in mdAppend \cup mdOverwrite}
  IN {m \in md : m[1] \notin touched}
       \cup {<<mdFileID(m[1]), <<m[2]>>>> : m \in mdOverwrite}
       \cup {<<mdFileID(m[1]), Append(MDPayload(md, mdFileID(m[1])), m[2])>> :
               m \in mdAppend}

\* createMD: the RecordMetadata kept in recordmetadata.json, here together
\* with the files and the metadata streams of the record's directory.
createMD(status, version, hashes, files, md) ==
  [status |-> status, version |-> version, files |-> files, md |-> md,
   merkle |-> MerkleRoot(hashes)]

\* The hashes newRecord hands to createMD: the digest of every file written.
newRecordHashes(fa) == Hashes(fa)

updateRecordHashesMutant(files, fa) == Hashes(fa)

\* The hashes updateRecord hands to createMD: the digest of every file that
\* the payload directory holds once the files are written and deleted.
updateRecordHashes(files, fa) == Hashes(files)

newRecord(r, token, metadata, fa, flt) ==
  IF r.ubr[token].ex \/ "newbranch" \in flt THEN Result(r, ErrGit, NoRec)
  ELSE
    LET r1 == gitNewBranch(r, token)
        brm == createMD(MDStatusUnvetted, 1, newRecordHashes(fa), fa,
                        {<<mdFileID(m[1]), <<m[2]>>>> : m \in metadata})
    IN IF "write" \in flt THEN Result(Dirty(r1), ErrGit, NoRec)
       ELSE Result(gitCommit(r1, Commit("add", token, brm, {})), OK, brm)

New_(r, sd, token, metadata, fa, flt) ==
  IF sd THEN Result(r, ErrShutdown, NoRec)
  ELSE
    LET r1 == gitCheckout(r, Master) IN
    IF "pull" \in flt THEN Result(r1, ErrGit, NoRec)
    ELSE
      LET nr == newRecord(gitPull(r1), token, metadata, fa, flt) IN
      IF nr.err # OK /\ "stash" \in flt THEN Result(Dirty(nr.r), ErrGit, NoRec)
      ELSE
        LET r2 == IF nr.err # OK THEN gitStash(nr.r) ELSE nr.r IN
        IF "checkout2" \in flt THEN Result(r2, ErrGit, NoRec)
        ELSE Result(gitCheckout(r2, Master), nr.err, nr.rec)

checkoutRecordBranchNoCreate(r, id, flt) ==
  IF r.ubr[id].ex THEN Result(gitCheckout(r, id), OK, NoRec)
  ELSE Result(r, ErrRecordNotFound, NoRec)

checkoutRecordBranchMutant(r, id, flt) ==
  IF r.ubr[id].ex THEN Result(gitCheckout(r, id), OK, NoRec)
  ELSE IF "newbranch" \in flt THEN Result(r, ErrGit, NoRec)
  ELSE Result(gitNewBranch(r, id), OK, NoRec)

checkoutRecordBranch(r, id, flt) ==
  IF r.ubr[id].ex THEN Result(gitCheckout(r, id), OK, NoRec)
  ELSE IF UWorkRec(r, id) = NoRec THEN Result(r, ErrRecordNotFound, NoRec)
  ELSE IF "newbranch" \in flt THEN Result(r, ErrGit, NoRec)
  ELSE Result(gitNewBranch(r, id), OK, NoRec)

UpdatableStatusMutant(status) ==
  status \in {MDStatusVetted, MDStatusUnvetted, MDStatusIterationUnvetted,
              MDStatusLocked, MDStatusCensored}

UpdatableStatus(status) ==
  status \in {MDStatusVetted, MDStatusUnvetted, MDStatusIterationUnvetted,
              MDStatusLocked}

updateRecord(r, token, mdAppend, mdOverwrite, fa, filesDel, flt) ==
  LET cb == checkoutRecordBranch(r, token, flt) IN
  IF cb.err # OK THEN cb
  ELSE
    LET brm == UWorkRec(cb.r, token)
        files == RemoveFiles(WriteFiles(brm.files, fa), filesDel)
        md == updateMetadata(brm.md, mdAppend, mdOverwrite)
        brmNew == createMD(MDStatusIterationUnvetted, brm.version + 1,
                           updateRecordHashes(files, fa), files, md)
    IN
    IF brm = NoRec THEN Result(cb.r, ErrRecordNotFound, NoRec)
    ELSE IF ~UpdatableStatus(brm.status) THEN Result(cb.r, ErrStatus, NoRec)
    ELSE IF \E v \in filesDel : \A f \in brm.files : f[1] # v
      THEN Result(cb.r, ErrFileNotFound, NoRec)
    ELSE IF "write" \in flt THEN Result(Dirty(cb.r), ErrGit, NoRec)
    ELSE IF files = {} THEN Result(Dirty(cb.r), ErrEmpty, NoRec)
    ELSE IF files = brm.files /\ md = brm.md
      THEN Result(cb.r, ErrNoChanges, NoRec)
    ELSE Result(gitCommit(cb.r, Commit("update", token, brmNew, {})), OK, brmNew)

UpdateUnvettedRecord_(r, sd, token, mdAppend, mdOverwrite, fa, filesDel, flt) ==
  IF sd THEN Result(r, ErrShutdown, NoRec)
  ELSE
    LET r1 == gitCheckout(r, Master) IN
    IF "pull" \in flt THEN Result(r1, ErrGit, NoRec)
    ELSE
      LET ur == updateRecord(gitPull(r1), token, mdAppend, mdOverwrite, fa,
                             filesDel, flt)
          unwind == ur.err \notin {OK, ErrNoChanges}
      IN
      IF unwind /\ "stash" \in flt THEN Result(Dirty(ur.r), ErrGit, NoRec)
      ELSE
        LET r2 == IF unwind THEN gitStash(ur.r) ELSE ur.r IN
        IF "checkout2" \in flt THEN Result(r2, ErrGit, NoRec)
        ELSE Result(gitCheckout(r2, Master), ur.err, ur.rec)

\* ------------------------------------------------------ promotion protocol
\* Replaying a commit of record tok on a newer master keeps what the commit
\* changed and takes the rest (the metadata streams it left alone) from master.
RebaseRec(base, onto, rec) ==
  [rec EXCEPT !.md =
     {m \in onto.md : MDPayload(rec.md, m[1]) = MDPayload(base.md, m[1])}
       \cup {m \in rec.md : m[2] # MDPayload(base.md, m[1])}]

RebaseConflict(r, b) ==
  LET tok == TokenOf(b)
      base == TreeAt(r.vlog, r.ubr[b].base, tok)
      onto == UMasterRec(r, tok)
      rec == BranchRec(r, b, tok)
  IN \E m \in rec.md :
       /\ m[2] # MDPayload(base.md, m[1])
       /\ MDPayload(onto.md, m[1]) # MDPayload(base.md, m[1])

\* git rebase master, on branch b of staging: commits that master already
\* holds are dropped, the others are replayed on the head of master.
gitRebase(r, b) ==
  LET tok == TokenOf(b)
      base == TreeAt(r.vlog, r.ubr[b].base, tok)
      onto == UMasterRec(r, tok)
      fresh == SelectSeq(r.ubr[b].commits,
                         LAMBDA c : \A i \in 1..r.ulen : r.vlog[i] # c)
  IN [r EXCEPT !.ubr[b] =
        [ex |-> TRUE, base |-> r.ulen,
         commits |-> [i \in 1..Len(fresh) |->
                        [fresh[i] EXCEPT !.rec = RebaseRec(base, onto, @)]]]]

rebasePRPushLate(r, id, flt) ==
  LET r1 == gitPull(gitCheckout(r, Master))
      r2 == gitCheckout(r1, id)
      r3 == gitRebase(r2, id)
      r4 == [r3 EXCEPT !.vbr = @ \cup {id}]
      r5 == [r4 EXCEPT !.vlog = @ \o r4.ubr[id].commits]
      r6 == [r5 EXCEPT !.vbr = @ \ {id}]
      r7 == gitPull(gitCheckout(r6, Master))
  IN
  IF "prcheckout" \in flt THEN Result(r, ErrGit, NoRec)
  ELSE IF "prpull" \in flt THEN Result(gitCheckout(r, Master), ErrGit, NoRec)
  ELSE IF "prcheckoutid" \in flt THEN Result(r1, ErrRecordNotFound, NoRec)
  ELSE IF RebaseConflict(r2, id) \/ "prrebase" \in flt
    THEN Result(Dirty(r2), ErrGit, NoRec)
  ELSE IF "vrebase" \in flt THEN Result(r4, ErrGit, NoRec)
  ELSE IF "push" \in flt THEN Result(r5, ErrGit, NoRec)
  ELSE IF "vdel" \in flt THEN Result(r5, ErrGit, NoRec)
  ELSE IF "synccheckout" \in flt THEN Result(r6, ErrGit, NoRec)
  ELSE IF "syncpull" \in flt THEN Result(gitCheckout(r6, Master), ErrGit, NoRec)
  ELSE IF "del" \in flt THEN Result(r7, ErrGit, NoRec)
  ELSE Result(gitBranchDelete(r7, id), OK, NoRec)

rebasePRMutant(r, id, flt) ==
  LET r1 == gitPull(gitCheckout(r, Master))
      r2 == gitCheckout(r1, id)
      r3 == gitRebase(r2, id)
      r4 == [r3 EXCEPT !.vbr = @ \cup {id}]
      r5 == [r4 EXCEPT !.vlog = @ \o r4.ubr[id].commits]
      r6 == [r5 EXCEPT !.vbr = @ \ {id}]
      r7 == gitPull(gitCheckout(r6, Master))
  IN
  IF "prcheckout" \in flt THEN Result(r, ErrGit, NoRec)
  ELSE IF "prpull" \in flt THEN Result(gitCheckout(r, Master), ErrGit, NoRec)
  ELSE IF "prcheckoutid" \in flt THEN Result(r1, ErrRecordNotFound, NoRec)
  ELSE IF RebaseConflict(r2, id) \/ "prrebase" \in flt
    THEN Result(Dirty(r2), ErrGit, NoRec)
  ELSE IF "push" \in flt THEN Result(r3, ErrGit, NoRec)
  ELSE IF "vrebase" \in flt THEN Result(r4, ErrGit, NoRec)
  ELSE IF "vdel" \in flt THEN Result(r5, ErrGit, NoRec)
  ELSE IF "synccheckout" \in flt THEN Result(r6, ErrGit, NoRec)
  ELSE IF "syncpull" \in flt THEN Result(gitCheckout(r6, Master), ErrGit, NoRec)
  ELSE IF "del" \in flt THEN Result(r7, ErrGit, NoRec)
  ELSE Result(r7, OK, NoRec)

rebasePR(r, id, flt) ==
  LET r1 == gitPull(gitCheckout(r, Master))
      r2 == gitCheckout(r1, id)
      r3 == gitRebase(r2, id)
      r4 == [r3 EXCEPT !.vbr = @ \cup {id}]
      r5 == [r4 EXCEPT !.vlog = @ \o r4.ubr[id].commits]
      r6 == [r5 EXCEPT !.vbr = @ \ {id}]
      r7 == gitPull(gitCheckout(r6, Master))
  IN
  IF "prcheckout" \in flt THEN Result(r, ErrGit, NoRec)
  ELSE IF "prpull" \in flt THEN Result(gitCheckout(r, Master), ErrGit, NoRec)
  ELSE IF "prcheckoutid" \in flt THEN Result(r1, ErrRecordNotFound, NoRec)
  ELSE IF RebaseConflict(r2, id) \/ "prrebase" \in flt
    THEN Result(Dirty(r2), ErrGit, NoRec)
  ELSE IF "push" \in flt THEN Result(r3, ErrGit, NoRec)
  ELSE IF "vrebase" \in flt THEN Result(r4, ErrGit, NoRec)
  ELSE IF "vdel" \in flt THEN Result(r5, ErrGit, NoRec)
  ELSE IF "synccheckout" \in flt THEN Result(r6, ErrGit, NoRec)
  ELSE IF "syncpull" \in flt THEN Result(gitCheckout(r6, Master), ErrGit, NoRec)
  ELSE IF "del" \in flt THEN Result(r7, ErrGit, NoRec)
  ELSE Result(gitBranchDelete(r7, id), OK, NoRec)

PublishTransitionMutant(from, to) ==
  /\ from \in {MDStatusUnvetted, MDStatusIterationUnvetted}
  /\ to \in {MDStatusVetted, MDStatusCensored}

PublishTransition(from, to) ==
  from \in {MDStatusUnvetted, MDStatusIterationUnvetted} /\ to = MDStatusVetted

CensorTransitionMutant(from, to) ==
  /\ from \in {MDStatusUnvetted, MDStatusIterationUnvetted}
  /\ to = MDStatusCensored

CensorTransition(from, to) ==
  from = MDStatusUnvetted /\ to = MDStatusCensored

setUnvettedStatus(r, token, status, mdAppend, mdOverwrite, flt) ==
  IF ~gitCheckoutOK(r, token) THEN Result(r, ErrRecordNotFound, NoRec)
  ELSE
    LET r1 == gitCheckout(r, token)
        record == UWorkRec(r1, token)
        recNew == [record EXCEPT
                     !.status = status, !.version = @ + 1,
                     !.md = updateMetadata(@, mdAppend, mdOverwrite)]
        \* the record handed back: loaded without files before the update,
        \* with the new status and version
        recRet == [_getRecord(record, FALSE) EXCEPT
                     !.status = status, !.version = @ + 1]
    IN
    IF record = NoRec THEN Result(r1, ErrRecordNotFound, NoRec)
    ELSE IF PublishTransition(record.status, status) THEN
      IF "write" \in flt THEN Result(Dirty(r1), ErrGit, NoRec)
      ELSE
        LET pr == rebasePR(gitCommit(r1, Commit("status", token, recNew, {})),
                           token, flt)
        IN Result(pr.r, pr.err, IF pr.err = OK THEN recRet ELSE NoRec)
    ELSE IF CensorTransition(record.status, status) THEN
      IF "write" \in flt THEN Result(Dirty(r1), ErrGit, NoRec)
      ELSE Result(gitCommit(r1, Commit("status", token, recNew, {})), OK, recRet)
    ELSE Result(r1, StateTransitionError(record.status, status), NoRec)

SetUnvettedStatusIgnoreCheckout(r, sd, token, status, mdAppend, mdOverwrite, flt) ==
  IF sd THEN Result(r, ErrShutdown, NoRec)
  ELSE
    LET su == setUnvettedStatus(r, token, status, mdAppend, mdOverwrite, flt) IN
    IF su.err # OK /\ "stash" \in flt THEN Result(Dirty(su.r), ErrGit, NoRec)
    ELSE
      LET r2 == IF su.err # OK THEN gitStash(su.r) ELSE su.r IN
      IF "checkout2" \in flt THEN Result(r2, su.err, su.rec)
      ELSE Result(gitCheckout(r2, Master), su.err, su.rec)

SetUnvettedStatus_(r, sd, token, status, mdAppend, mdOverwrite, flt) ==
  IF sd THEN Result(r, ErrShutdown, NoRec)
  ELSE
    LET su == setUnvettedStatus(r, token, status, mdAppend, mdOverwrite, flt) IN
    IF su.err # OK /\ "stash" \in flt THEN Result(Dirty(su.r), ErrGit, NoRec)
    ELSE
      LET r2 == IF su.err # OK THEN gitStash(su.r) ELSE su.r IN
      IF "checkout2" \in flt THEN Result(r2, ErrGit, NoRec)
      ELSE Result(gitCheckout(r2, Master), su.err, su.rec)

updateVettedMetadata(r, id, idTmp, mdAppend, mdOverwrite, flt) ==
  IF r.ubr[idTmp].ex \/ "newbranch" \in flt THEN Result(r, ErrGit, NoRec)
  ELSE
    LET r1 == gitNewBranch(r, idTmp)
        rec == UWorkRec(r1, id)
        recNew == [rec EXCEPT !.md = updateMetadata(@, mdAppend, mdOverwrite)]
    IN
    IF "write" \in flt THEN Result(Dirty(r1), ErrGit, NoRec)
    ELSE IF recNew = rec THEN Result(r1, ErrNoChanges, NoRec)
    ELSE rebasePR(gitCommit(r1, Commit("md", id, recNew, {})), idTmp, flt)

UpdateVettedMetadata_(r, sd, token, mdAppend, mdOverwrite, flt) ==
  IF sd THEN Result(r, ErrShutdown, NoRec)
  ELSE
    LET r1 == gitCheckout(r, Master)
        r2 == gitPull(r1)
        idTmp == TmpName(token)
        md == UMasterRec(r2, token)
    IN
    IF "pull" \in flt THEN Result(r1, ErrGit, NoRec)
    ELSE IF md = NoRec THEN Result(r2, ErrRecordNotFound, NoRec)
    ELSE IF md.status = MDStatusLocked THEN Result(r2, ErrRecordLocked, NoRec)
    ELSE
      LET uv == updateVettedMetadata(r2, token, idTmp, mdAppend, mdOverwrite, flt)
      IN
      IF uv.err # OK /\ "stash" \in flt THEN Result(Dirty(uv.r), ErrGit, NoRec)
      ELSE
        LET r3 == IF uv.err # OK THEN gitStash(uv.r) ELSE uv.r
            r4 == gitCheckout(r3, Master)
        IN
        IF "checkout2" \in flt THEN Result(r3, ErrGit, NoRec)
        ELSE IF uv.err = OK THEN Result(r4, OK, NoRec)
        ELSE IF ~gitBranchDeleteOK(r4, idTmp) \/ "del" \in flt
          THEN Result(r4, ErrGit, NoRec)
        ELSE Result(gitBranchDelete(r4, idTmp), uv.err, NoRec)

\* ----------------------------------------------------------------- reading
getRecord(r, token, unvetted) ==
  IF unvetted THEN
    IF ~gitCheckoutOK(r, token) THEN Result(r, ErrRecordNotFound, NoRec)
    ELSE
      LET r1 == gitCheckout(r, token)
          rec == UWorkRec(r1, token)
      IN
      IF gitBranchNow(r1) # token THEN Result(r1, ErrRecordNotFound, NoRec)
      ELSE IF rec = NoRec
        THEN Result(gitCheckout(r1, Master), ErrRecordNotFound, NoRec)
      ELSE Result(gitCheckout(r1, Master), OK, _getRecord(rec, TRUE))
  ELSE
    IF VettedRec(r, token) = NoRec THEN Result(r, ErrRecordNotFound, NoRec)
    ELSE Result(r, OK, _getRecord(VettedRec(r, token), TRUE))

getRecordLock(r, sd, token, unvetted) ==
  IF sd THEN Result(r, ErrShutdown, NoRec) ELSE getRecord(r, token, unvetted)

GetUnvetted_(r, sd, token) == getRecordLock(r, sd, token, TRUE)

GetVetted_(r, sd, token) == getRecordLock(r, sd, token, FALSE)

\* Inventory: every record directory of publication master, then every
\* token-named branch of staging; the first failing read fails the call.
Inventory_(r, sd) ==
  IF sd THEN Result(r, ErrShutdown, NoRec)
  ELSE
    LET branches == gitBranches(r) \cap Tokens
        bad == {b \in branches : getRecord(r, b, TRUE).err # OK}
    IN
    IF bad # {} THEN Result(getRecord(r, CHOOSE b \in bad : TRUE, TRUE).r,
                            ErrRecordNotFound, NoRec)
    ELSE IF branches # {} THEN Result(gitCheckout(r, Master), OK, NoRec)
    ELSE Result(r, OK, NoRec)

\* ------------------------------------------------------------ anchor engine
\* A commit digest is the commit's position on publication master; the
\* extended digest pads it to the size of a SHA256 digest.
extendSHA1(d) == <<d, 0>>

unextendSHA256(d) == d[1]

gitLastDigest(log) == Len(log)

regexAnchorConfirmation(c) == c.kind = "conf"

regexAnchor(c) == c.kind = "anchor"

\* newAnchorRecord: the key of an anchor is the merkle root of its digests.
AnchorKey(digests) == {digests[i] : i \in 1..Len(digests)}

deltaCommitsSinceIncluded(log, lastAnchor) ==
  IF Len(log) = 0 THEN [err |-> ErrGit, digests |-> <<>>]
  ELSE
    LET latestCommit == gitLastDigest(log)
        since == IF lastAnchor = <<>> THEN 0 ELSE unextendSHA256(lastAnchor) - 1
        out == [i \in 1..(latestCommit - since) |-> latestCommit - i + 1]
        kept == SelectSeq(out, LAMBDA d : ~regexAnchorConfirmation(log[d]))
    IN
    IF lastAnchor # <<>> /\ unextendSHA256(lastAnchor) = latestCommit
      THEN [err |-> ErrNothingToDo, digests |-> <<>>]
    ELSE IF Len(out) = 0 THEN [err |-> ErrGit, digests |-> <<>>]
    ELSE IF Len(kept) = 0 THEN [err |-> ErrNothingToDo, digests |-> <<>>]
    ELSE [err |-> OK, digests |-> [i \in 1..Len(kept) |-> extendSHA1(kept[i])]]

\* git log lastAnchor..head, newest first, anchor confirmations skipped.
deltaCommits(log, lastAnchor) ==
  IF Len(log) = 0 THEN [err |-> ErrGit, digests |-> <<>>]
  ELSE
    LET latestCommit == gitLastDigest(log)
        since == IF lastAnchor = <<>> THEN 0 ELSE unextendSHA256(lastAnchor)
        out == [i \in 1..(latestCommit - since) |-> latestCommit - i + 1]
        kept == SelectSeq(out, LAMBDA d : ~regexAnchorConfirmation(log[d]))
    IN
    IF lastAnchor # <<>> /\ since = latestCommit
      THEN [err |-> ErrNothingToDo, digests |-> <<>>]
    ELSE IF Len(out) = 0 THEN [err |-> ErrGit, digests |-> <<>>]
    ELSE IF Len(kept) = 0 THEN [err |-> ErrNothingToDo, digests |-> <<>>]
    ELSE [err |-> OK, digests |-> [i \in 1..Len(kept) |-> extendSHA1(kept[i])]]

readLastAnchorRecord(d) == d.last

readUnconfirmedAnchorRecord(d) == d.unconfirmed

anchorRepo(r, d, flt) ==
  LET last == readLastAnchorRecord(d)
      dc == deltaCommits(r.vlog, last)
      anchorKey == AnchorKey(dc.digests)
  IN
  IF dc.err # OK THEN Result(r, dc.err, NoRec)
  ELSE IF "timestamp" \in flt THEN Result(r, ErrTimestamp, NoRec)
  ELSE IF "vcommit" \in flt THEN Result([r EXCEPT !.vdirty = TRUE], ErrGit, NoRec)
  ELSE Result([r EXCEPT !.vlog = Append(@, Commit("anchor", "none", NoRec, anchorKey)),
                        !.vdirty = FALSE],
              OK, NoRec)

anchorAllReposMutant(r, sd, d, flt) ==
  LET ar == anchorRepo(r, d, flt) IN
  IF ar.err = ErrNothingToDo THEN Result(ar.r, OK, NoRec)
  ELSE IF ar.err # OK THEN ar
  ELSE IF ~gitPullOK(ar.r) \/ "pull" \in flt THEN Result(ar.r, ErrGit, NoRec)
  ELSE Result(gitPull(ar.r), OK, NoRec)

anchorAllRepos(r, sd, d, flt) ==
  IF sd THEN Result(r, ErrShutdown, NoRec)
  ELSE
    LET ar == anchorRepo(r, d, flt) IN
    IF ar.err = ErrNothingToDo THEN Result(ar.r, OK, NoRec)
    ELSE IF ar.err # OK THEN ar
    ELSE IF ~gitPullOK(ar.r) \/ "pull" \in flt THEN Result(ar.r, ErrGit, NoRec)
    ELSE Result(gitPull(ar.r), OK, NoRec)

\* A verify reply: the digest asked about and the chain timestamp.
VerifyDigest(digest, ts) == [digest |-> digest, ts |-> ts]

\* The loop of afterAnchorVerify over the verified replies.
RECURSIVE HandleVerified(_, _, _, _)
HandleVerified(r, replies, i, flt) ==
  IF i > Len(replies) THEN Result(r, OK, NoRec)
  ELSE IF replies[i].ts = 0 THEN Result(r, ErrNotEnoughConfirmations, NoRec)
  ELSE IF "vcommit" \in flt THEN Result([r EXCEPT !.vdirty = TRUE], ErrGit, NoRec)
  ELSE HandleVerified(
         [r EXCEPT !.vlog = Append(@, Commit("conf", "none", NoRec, replies[i].digest)),
                   !.vdirty = FALSE],
         replies, i + 1, flt)

afterAnchorVerifyNoPull(r, replies, flt) ==
  LET hv == HandleVerified(r, replies, 1, flt) IN
  IF hv.err # OK THEN hv
  ELSE IF Len(replies) = 0 THEN hv
  ELSE IF "pull" \in flt THEN Result(gitCheckout(hv.r, Master), ErrGit, NoRec)
  ELSE Result(gitCheckout(hv.r, Master), OK, NoRec)

afterAnchorVerify(r, replies, flt) ==
  LET hv == HandleVerified(r, replies, 1, flt) IN
  IF hv.err # OK THEN hv
  ELSE IF Len(replies) = 0 THEN hv
  ELSE IF "pull" \in flt THEN Result(gitCheckout(hv.r, Master), ErrGit, NoRec)
  ELSE Result(gitPull(gitCheckout(hv.r, Master)), OK, NoRec)

RECURSIVE FsckWalkMutant(_, _, _)
FsckWalkMutant(log, n, acc) ==
  IF n = 0 THEN acc
  ELSE IF regexAnchorConfirmation(log[n])
    THEN FsckWalkMutant(log, n - 1,
                        [acc EXCEPT !.confirmedAnchors = @ \cup {log[n].mr}])
  ELSE IF regexAnchor(log[n])
    THEN FsckWalkMutant(log, n - 1,
                        [acc EXCEPT
                           !.seenAnchor = TRUE,
                           !.unconfirmedAnchors =
                              IF log[n].mr \in acc.confirmedAnchors THEN @
                              ELSE Append(@, log[n].mr)])
  ELSE IF ~acc.seenAnchor THEN FsckWalkMutant(log, n - 1, acc)
  ELSE FsckWalkMutant(log, n - 1,
                      [acc EXCEPT !.gitDigests = @ \cup {extendSHA1(n)},
                                  !.unconfirmedAnchors = Append(@, {extendSHA1(n)})])

\* The walk of fsck over the log, newest commit first.
RECURSIVE FsckWalk(_, _, _)
FsckWalk(log, n, acc) ==
  IF n = 0 THEN acc
  ELSE IF regexAnchorConfirmation(log[n])
    THEN FsckWalk(log, n - 1,
                  [acc EXCEPT !.confirmedAnchors = @ \cup {log[n].mr}])
  ELSE IF regexAnchor(log[n])
    THEN FsckWalk(log, n - 1,
                  [acc EXCEPT
                     !.seenAnchor = TRUE,
                     !.unconfirmedAnchors =
                        IF log[n].mr \in acc.confirmedAnchors THEN @
                        ELSE Append(@, log[n].mr)])
  ELSE IF ~acc.seenAnchor THEN FsckWalk(log, n - 1, acc)
  ELSE FsckWalk(log, n - 1,
                [acc EXCEPT !.gitDigests = @ \cup {extendSHA1(n)}])

FsckScan(log) ==
  FsckWalk(log, Len(log),
           [seenAnchor |-> FALSE, confirmedAnchors |-> {},
            unconfirmedAnchors |-> <<>>, gitDigests |-> {}])

\* The replies the authority may give for a list of merkle roots: a failed
\* call drops the root, a pending one has chain timestamp 0.
RECURSIVE VerifyReplies(_)
VerifyReplies(roots) ==
  IF Len(roots) = 0 THEN {<<>>}
  ELSE
    LET rest == VerifyReplies(Tail(roots)) IN
    rest \cup {<<VerifyDigest(Head(roots), ts)>> \o v : ts \in {0, 1}, v \in rest}

\* ------------------------------------------------------------------ inputs
NoFaults == {{}}
NewFaults == {{}, {"pull"}, {"newbranch"}, {"write"}, {"write", "stash"}, {"checkout2"}}
UpdateFaults == {{}, {"pull"}, {"newbranch"}, {"write"}, {"stash"}, {"checkout2"}}
StatusFaults ==
  {{}, {"write"}, {"prcheckout"}, {"prpull"}, {"prcheckoutid"}, {"prrebase"},
   {"push"}, {"vrebase"}, {"vdel"}, {"synccheckout"}, {"syncpull"}, {"del"},
   {"stash"}, {"checkout2"}}
MetadataFaults ==
  {{}, {"pull"}, {"write"}, {"prpull"}, {"prrebase"}, {"push"}, {"vrebase"},
   {"vdel"}, {"del"}, {"stash"}}
AnchorFaults == {{}, {"timestamp"}, {"vcommit"}, {"pull"}}
VerifyFaults == {{}, {"vcommit"}, {"pull"}}

NewFiles == {{<<"a", "x">>}}
NewMetadata == {{<<1, "h">>}}
FilesAdd == {{}, {<<"b", "y">>}}
FilesDel == {{}, {"b"}}
MDAppend == {{}, {<<1, "w">>}}
MDOverwrite == {{}, {<<1, "o">>}}
Nothing == {{}}

\* verifyContent: a stream id is given once, a file is not both added and deleted.
ValidUpdate(mda, mdo, fa, fd) ==
  /\ \A m \in mda : \A n \in mdo : m[1] # n[1]
  /\ \A f \in fa : f[1] \notin fd

\* The bound of the model: the number of commits the two repositories hold,
\* on publication master and on the branches of staging.
RECURSIVE Sum(_, _)
Sum(f, S) ==
  IF S = {} THEN 0
  ELSE LET x == CHOOSE y \in S : TRUE IN f[x] + Sum(f, S \ {x})

Bounded(r) ==
  Len(r.vlog) + Sum([b \in BranchNames |-> Len(r.ubr[b].commits)], BranchNames)
    <= MaxCommits

\* ------------------------------------------------------------------- tasks
Started == pc["fsck"] = "done"

Home(t) ==
  CASE t = "client" -> "idle"
    [] t = "cron" -> "idle"
    [] t = "watcher" -> "wait"
    [] t = "fsck" -> "done"

\* Where a task goes on after the deferred unlock: fsck, which had called
\* afterAnchorVerify, returns its error or goes on to verify its digests.
Resume(t) == IF t = "fsck" /\ ret[t].err = OK THEN "verify" ELSE Home(t)

\* lock.Lock(LockDuration): the lock is taken when it is free ...
Lock(t) ==
  /\ pc[t] = "lockwait"
  /\ lock = "none"
  /\ lock' = t
  /\ pc' = [pc EXCEPT ![t] = "locked"]
  /\ UNCHANGED <<shutdown, exitClosed, ret, repoVars, db, vrs, issued, gitDigests>>

\* ... and the call fails when another task holds it for the whole duration.
LockTimeout(t) ==
  /\ pc[t] = "lockwait"
  /\ lock \notin {"none", t}
  /\ pc' = [pc EXCEPT ![t] = Home(t)]
  /\ gitDigests' = IF t = "fsck" THEN {} ELSE gitDigests
  /\ UNCHANGED <<lock, shutdown, exitClosed, ret, repoVars, db, vrs, issued>>

\* The deferred lock.Unlock() of every operation.
Unlock(t) ==
  /\ pc[t] = "unlock"
  /\ lock = t
  /\ lock' = "none"
  /\ pc' = [pc EXCEPT ![t] = Resume(t)]
  /\ ret' = [ret EXCEPT ![t] = NoRet]
  /\ gitDigests' = IF t = "fsck" /\ Resume(t) = "done" THEN {} ELSE gitDigests
  /\ UNCHANGED <<shutdown, exitClosed, repoVars, db, vrs, issued>>

\* A client calls one of the operations of the backend.
ClientCall ==
  /\ Started
  /\ pc["client"] = "idle"
  /\ pc' = [pc EXCEPT !["client"] = "lockwait"]
  /\ UNCHANGED <<lock, shutdown, exitClosed, ret, repoVars, db, vrs, issued, gitDigests>>

DoneMutant(t, res, r) ==
  /\ pc[t] = "locked"
  /\ Bounded(res.r)
  /\ SetRepo(res.r)
  /\ ret' = [ret EXCEPT ![t] = r]
  /\ pc' = [pc EXCEPT ![t] = IF res.err # OK THEN Home(t) ELSE "unlock"]
  /\ UNCHANGED <<lock, shutdown, exitClosed, db, vrs, issued, gitDigests>>

\* The locked part of an operation of task t has run and left res.
Done(t, res, r) ==
  /\ pc[t] = "locked"
  /\ Bounded(res.r)
  /\ SetRepo(res.r)
  /\ ret' = [ret EXCEPT ![t] = r]
  /\ pc' = [pc EXCEPT ![t] = "unlock"]
  /\ UNCHANGED <<lock, shutdown, exitClosed, db, vrs, issued, gitDigests>>

Fresh(tok) == ~ubr[tok].ex /\ VettedRec(Repo, tok) = NoRec

New(toks, mds, adds, faults) ==
  \E tok \in toks, md \in mds, fa \in adds, flt \in faults :
    /\ Fresh(tok)
    /\ LET res == New_(Repo, shutdown, tok, md, fa, flt)
       IN Done("client", res,
               [Ret("New", tok, "none", res.err, res.rec, flt)
                  EXCEPT !.arg = <<md, fa>>])

UpdateUnvettedRecord(toks, apps, ovrs, adds, dels, faults) ==
  \E tok \in toks, mda \in apps, mdo \in ovrs, fa \in adds, fd \in dels,
     flt \in faults :
    /\ ValidUpdate(mda, mdo, fa, fd)
    /\ LET res == UpdateUnvettedRecord_(Repo, shutdown, tok, mda, mdo, fa, fd, flt)
       IN Done("client", res,
               [Ret("UpdateUnvettedRecord", tok, "none", res.err, res.rec, flt)
                  EXCEPT !.arg = <<mda, mdo, fa, fd>>])

UpdateVettedMetadata(toks, apps, ovrs, faults) ==
  \E tok \in toks, mda \in apps, mdo \in ovrs, flt \in faults :
    /\ ValidUpdate(mda, mdo, {}, {})
    /\ LET res == UpdateVettedMetadata_(Repo, shutdown, tok, mda, mdo, flt)
       IN Done("client", res,
               Ret("UpdateVettedMetadata", tok, "none", res.err, res.rec, flt))

SetUnvettedStatus(toks, statuses, apps, faults) ==
  \E tok \in toks, status \in statuses, mda \in apps, flt \in faults :
    LET res == SetUnvettedStatus_(Repo, shutdown, tok, status, mda, {}, flt)
    IN Done("client", res,
            Ret("SetUnvettedStatus", tok, status, res.err, res.rec, flt))

GetUnvetted(toks) ==
  \E tok \in toks :
    LET res == GetUnvetted_(Repo, shutdown, tok)
    IN Done("client", res, Ret("GetUnvetted", tok, "none", res.err, res.rec, {}))

GetVetted(toks) ==
  \E tok \in toks :
    LET res == GetVetted_(Repo, shutdown, tok)
    IN Done("client", res, Ret("GetVetted", tok, "none", res.err, res.rec, {}))

Inventory ==
  LET res == Inventory_(Repo, shutdown)
  IN Done("client", res, Ret("Inventory", "none", "none", res.err, NoRec, {}))

Close ==
  /\ pc["client"] = "locked"
  /\ shutdown' = TRUE
  /\ exitClosed' = TRUE
  /\ ret' = [ret EXCEPT !["client"] = Ret("Close", "none", "none", OK, NoRec, {})]
  /\ pc' = [pc EXCEPT !["client"] = "unlock"]
  /\ UNCHANGED <<lock, repoVars, db, vrs, issued, gitDigests>>

\* The cron job fires (anchorSchedule).
anchorAllReposCronJob ==
  /\ pc["cron"] = "idle"
  /\ pc' = [pc EXCEPT !["cron"] = "lockwait"]
  /\ UNCHANGED <<lock, shutdown, exitClosed, ret, repoVars, db, vrs, issued, gitDigests>>

AnchorAllRepos(faults) ==
  \E flt \in faults :
    LET res == anchorAllRepos(Repo, shutdown, db, flt)
        note == IF shutdown THEN "none" ELSE anchorRepo(Repo, db, flt).err
    IN Done("cron", res, Ret("anchorAllRepos", "none", note, res.err, NoRec, flt))

\* periodicAnchorChecker: the select on g.exit, g.checkAnchor and the timer.
periodicAnchorChecker ==
  /\ pc["watcher"] = "wait"
  /\ \/ exitClosed /\ pc' = [pc EXCEPT !["watcher"] = "exited"]
     \/ pc' = [pc EXCEPT !["watcher"] = "check"]
  /\ UNCHANGED <<lock, shutdown, exitClosed, ret, repoVars, db, vrs, issued, gitDigests>>

\* ... then the test of g.shutdown and the unlocked part of anchorChecker.
anchorChecker ==
  /\ pc["watcher"] = "check"
  /\ LET ua == readUnconfirmedAnchorRecord(db) IN
     IF shutdown THEN pc' = [pc EXCEPT !["watcher"] = "exited"] /\ vrs' = vrs
     ELSE IF Len(ua) = 0 THEN pc' = [pc EXCEPT !["watcher"] = "wait"] /\ vrs' = vrs
     ELSE /\ pc' = [pc EXCEPT !["watcher"] = "lockwait"]
          /\ \E v \in VerifyReplies(ua) : vrs' = [vrs EXCEPT !["watcher"] = v]
  /\ UNCHANGED <<lock, shutdown, exitClosed, ret, repoVars, db, issued, gitDigests>>

fsckMutant ==
  /\ pc["fsck"] = "walk"
  /\ LET scan == FsckScan(vlog) IN
     IF Len(vlog) = 0 \/ scan.gitDigests = {}
       THEN pc' = [pc EXCEPT !["fsck"] = "done"] /\ vrs' = vrs /\ gitDigests' = {}
     ELSE /\ pc' = [pc EXCEPT !["fsck"] = "locked"]
          /\ gitDigests' = scan.gitDigests
          /\ \E v \in VerifyReplies(scan.unconfirmedAnchors) :
               vrs' = [vrs EXCEPT !["fsck"] = v]
  /\ UNCHANGED <<lock, shutdown, exitClosed, ret, repoVars, db, issued>>

\* fsck, from its walk of the log to its call of afterAnchorVerify.
fsck ==
  /\ pc["fsck"] = "walk"
  /\ LET scan == FsckScan(vlog) IN
     IF Len(vlog) = 0 \/ scan.gitDigests = {}
       THEN pc' = [pc EXCEPT !["fsck"] = "done"] /\ vrs' = vrs /\ gitDigests' = {}
     ELSE /\ pc' = [pc EXCEPT !["fsck"] = "lockwait"]
          /\ gitDigests' = scan.gitDigests
          /\ \E v \in VerifyReplies(scan.unconfirmedAnchors) :
               vrs' = [vrs EXCEPT !["fsck"] = v]
  /\ UNCHANGED <<lock, shutdown, exitClosed, ret, repoVars, db, issued>>

AfterAnchorVerify(t, faults) ==
  /\ t \in {"watcher", "fsck"}
  /\ \E flt \in faults :
       LET res == afterAnchorVerify(Repo, vrs[t], flt)
       IN Done(t, res, Ret("afterAnchorVerify", "none", "none", res.err, NoRec, flt))

ResultOK == "ResultOK"
ResultDoesntExistError == "ResultDoesntExistError"
ErrFsck == "dcrtime fsck failed"
FsckFaults == {{}, {"verify"}}

\* The answers util.Verify may bring back: one result for every digest sent.
VerifyResults(digests) == [digests -> {ResultOK, ResultDoesntExistError}]

fsckVerdictMutant(results, flt) ==
  IF "verify" \in flt THEN ErrTimestamp
  ELSE IF \A d \in DOMAIN results : results[d] # ResultOK THEN ErrFsck
  ELSE OK

\* The end of fsck: the error of util.Verify, or "dcrtime fsck failed" when
\* one of the results is not ResultOK.
fsckVerdict(results, flt) ==
  IF "verify" \in flt THEN ErrTimestamp
  ELSE IF \E d \in DOMAIN results : results[d] # ResultOK THEN ErrFsck
  ELSE OK

\* fsck after afterAnchorVerify has returned nil: all the precious digests go
\* to the authority in one call.
fsckVerify(faults) ==
  /\ pc["fsck"] = "verify"
  /\ \E flt \in faults, results \in VerifyResults(gitDigests) :
       ret' = [ret EXCEPT !["fsck"] =
                 [Ret("fsck", "none", "none", fsckVerdict(results, flt), NoRec, flt)
                    EXCEPT !.arg = <<gitDigests, results>>]]
  /\ pc' = [pc EXCEPT !["fsck"] = "verified"]
  /\ UNCHANGED <<lock, shutdown, exitClosed, repoVars, db, vrs, issued, gitDigests>>

\* New logs the error of fsck and returns the context.
fsckReturn ==
  /\ pc["fsck"] = "verified"
  /\ pc' = [pc EXCEPT !["fsck"] = "done"]
  /\ ret' = [ret EXCEPT !["fsck"] = NoRet]
  /\ gitDigests' = {}
  /\ UNCHANGED <<lock, shutdown, exitClosed, repoVars, db, vrs, issued>>

\* The daemon is started again on the same root directory after a shutdown:
\* New builds a fresh context, launches the watcher and the cron, runs fsck.
Restart ==
  /\ shutdown
  /\ lock = "none"
  /\ \A t \in Tasks : pc[t] \in {"idle", "wait", "check", "exited", "done"}
  /\ shutdown' = FALSE
  /\ exitClosed' = FALSE
  /\ pc' = [t \in Tasks |-> IF t = "fsck" THEN "walk" ELSE Home(t)]
  /\ vrs' = [t \in Tasks |-> <<>>]
  /\ UNCHANGED <<lock, ret, repoVars, db, issued, gitDigests>>

\* The record store under a sequential client.
Next ==
  \/ Lock("client")
  \/ Unlock("client")
  \/ ClientCall
  \/ New(Tokens, NewMetadata, NewFiles, NoFaults)
  \/ UpdateUnvettedRecord(CTokens, MDAppend, MDOverwrite, FilesAdd, FilesDel, NoFaults)
  \/ UpdateVettedMetadata(CTokens, MDAppend, MDOverwrite, NoFaults)
  \/ SetUnvettedStatus(Tokens, MDStatus, MDAppend, NoFaults)
  \/ GetUnvetted(Tokens)
  \/ GetVetted(Tokens)
  \/ Inventory

Spec == Init /\ [][Next]_vars

\* The record store under a sequential client, with the failures of the
\* versioned store.
NextF ==
  \/ Lock("client")
  \/ Unlock("client")
  \/ ClientCall
  \/ New(CTokens, NewMetadata, NewFiles, NewFaults)
  \/ UpdateUnvettedRecord(CTokens, MDAppend, Nothing, FilesAdd, Nothing, UpdateFaults)
  \/ UpdateVettedMetadata(CTokens, MDAppend, Nothing, MetadataFaults)
  \/ SetUnvettedStatus(CTokens, MDStatus, Nothing, StatusFaults)
  \/ GetUnvetted(CTokens)
  \/ GetVetted(CTokens)
  \/ Inventory

SpecF == Init /\ [][NextF]_vars

\* The client, the anchor cron, the confirmation watcher and the startup
\* fsck running together.
NextC ==
  \/ \E t \in Tasks : Lock(t)
  \/ \E t \in Tasks : LockTimeout(t)
  \/ \E t \in Tasks : Unlock(t)
  \/ ClientCall
  \/ New(CTokens, NewMetadata, NewFiles, NoFaults)
  \/ UpdateUnvettedRecord(CTokens, Nothing, Nothing, FilesAdd, Nothing, NoFaults)
  \/ UpdateVettedMetadata(CTokens, MDAppend, Nothing, NoFaults)
  \/ SetUnvettedStatus(CTokens, {MDStatusVetted, MDStatusCensored}, Nothing, NoFaults)
  \/ GetUnvetted(CTokens)
  \/ GetVetted(CTokens)
  \/ Inventory
  \/ Close
  \/ anchorAllReposCronJob
  \/ AnchorAllRepos(AnchorFaults)
  \/ periodicAnchorChecker
  \/ anchorChecker
  \/ fsck
  \/ \E t \in Tasks : AfterAnchorVerify(t, VerifyFaults)
  \/ fsckVerify(FsckFaults)
  \/ fsckReturn
  \/ Restart

SpecC == Init /\ [][NextC]_vars

\* The record store opened on a publication repository that already holds a
\* record with status Locked.
LockedRec ==
  createMD(MDStatusLocked, 2, Hashes({<<"a", "x">>}), {<<"a", "x">>},
           {<<mdFileID(1), <<"h">>>>})

InitL ==
  /\ lock = "none"
  /\ shutdown = FALSE
  /\ exitClosed = FALSE
  /\ pc = [t \in Tasks |-> Home(t)]
  /\ ret = [t \in Tasks |-> NoRet]
  /\ vlog = <<Commit("status", LockedToken, LockedRec, {})>>
  /\ vbr = {}
  /\ vdirty = FALSE
  /\ ulen = 1
  /\ ubr = [b \in BranchNames |-> NoBranch]
  /\ ucur = Master
  /\ udirty = FALSE
  /\ db = EmptyDB
  /\ vrs = [t \in Tasks |-> <<>>]
  /\ udirs = {}
  /\ issued = <<>>
  /\ gitDigests = {}

NextL ==
  \/ Lock("client")
  \/ Unlock("client")
  \/ ClientCall
  \/ New(CTokens, NewMetadata, NewFiles, NoFaults)
  \/ UpdateUnvettedRecord(Tokens, MDAppend, MDOverwrite, FilesAdd, FilesDel, NoFaults)
  \/ UpdateVettedMetadata(Tokens, MDAppend, MDOverwrite, NoFaults)
  \/ SetUnvettedStatus(Tokens, MDStatus, MDAppend, NoFaults)
  \/ GetUnvetted(Tokens)
  \/ GetVetted(Tokens)
  \/ Inventory

SpecL == InitL /\ [][NextL]_vars

\* ------------------------------------------------------------------ claims
\* The record of a token in each tier.
Staged(tok) == IF ubr[tok].ex THEN BranchRec(Repo, tok, tok) ELSE NoRec

Published(tok) == VettedRec(Repo, tok)

\* The task t runs the locked part of an operation in this step.
Body(t) == pc[t] = "locked" /\ pc'[t] = "unlock"

\* The status SetUnvettedStatus finds for a token: that of the record in the
\* working tree once `git checkout <token>` has run.
LoadedStatus(tok) == UWorkRec(gitCheckout(Repo, tok), tok).status

AllowedTransitions ==
  {<<MDStatusUnvetted, MDStatusVetted>>,
   <<MDStatusIterationUnvetted, MDStatusVetted>>,
   <<MDStatusUnvetted, MDStatusCensored>>}

\* C1: SetUnvettedStatus succeeds only for Unvetted -> Vetted,
\* UnvettedIteration -> Vetted and Unvetted -> Censored; for every other pair
\* of the record's status and the requested one it returns
\* StateTransitionError{from, to} and leaves the record's status and version,
\* in both tiers, as they were.
C1_OnlyAllowedTransitions ==
  [][\A tok \in Tokens :
      (/\ Body("client")
       /\ ret'["client"].op = "SetUnvettedStatus"
       /\ ret'["client"].tok = tok) =>
        LET r == ret'["client"]
            from == LoadedStatus(tok)
        IN /\ r.err = OK => <<from, r.to>> \in AllowedTransitions
           /\ (from # "none" /\ <<from, r.to>> \notin AllowedTransitions) =>
                /\ r.err = StateTransitionError(from, r.to)
                /\ Staged(tok)' = Staged(tok)
                /\ Published(tok)' = Published(tok)]_vars

C1_Witness ==
  /\ pc["client"] = "unlock"
  /\ ret["client"].op = "SetUnvettedStatus"
  /\ ret["client"].err =
       StateTransitionError(MDStatusIterationUnvetted, MDStatusCensored)
  /\ Staged(ret["client"].tok).status = MDStatusIterationUnvetted

\* C2 as claimed: every token's record is resident in exactly one tier, the
\* one its status determines (Unvetted, UnvettedIteration: staging; Vetted,
\* Censored, Locked: publication).
C2_ExactlyOneTier ==
  \A tok \in Tokens :
    LET s == Staged(tok)
        p == Published(tok)
    IN /\ ~(s # NoRec /\ p # NoRec)
       /\ s # NoRec => s.status \in {MDStatusUnvetted, MDStatusIterationUnvetted}
       /\ p # NoRec => p.status \in {MDStatusVetted, MDStatusCensored, MDStatusLocked}

\* C2 amended: every record on publication master has status Vetted or
\* Locked, so a record with status Unvetted, UnvettedIteration or Censored is
\* resident in staging only, on the branch named by its token; a Censored
\* record is never published, and a published record that is being updated is
\* resident in both tiers.
C2_TierOfStatus ==
  \A tok \in Tokens :
    /\ Published(tok) # NoRec =>
         Published(tok).status \in {MDStatusVetted, MDStatusLocked}
    /\ \A i \in 1..Len(vlog) :
         vlog[i].rec # NoRec =>
           vlog[i].rec.status \notin {MDStatusCensored}

C2_Witness ==
  \E tok \in Tokens :
    /\ Staged(tok).status = MDStatusCensored
    /\ Published(tok) = NoRec
    /\ \E other \in Tokens : Published(other).status = MDStatusVetted

\* C10: after New creates record T and SetUnvettedStatus(T, Vetted) succeeds,
\* GetVetted(T) returns the record with status Vetted and version 2,
\* GetUnvetted(T) fails with RecordNotFound and staging has no branch T.
C10_Publish ==
  LET r == ret["client"] IN
  (/\ pc["client"] = "unlock"
   /\ r.op = "SetUnvettedStatus"
   /\ r.to = MDStatusVetted
   /\ r.err = OK
   /\ r.rec.version = 2) =>
     /\ GetVetted_(Repo, shutdown, r.tok).err = OK
     /\ GetVetted_(Repo, shutdown, r.tok).rec.status = MDStatusVetted
     /\ GetVetted_(Repo, shutdown, r.tok).rec.version = 2
     /\ GetUnvetted_(Repo, shutdown, r.tok).err = ErrRecordNotFound
     /\ ~ubr[r.tok].ex

C10_Witness ==
  /\ pc["client"] = "unlock"
  /\ ret["client"].op = "SetUnvettedStatus"
  /\ ret["client"].to = MDStatusVetted
  /\ ret["client"].err = OK
  /\ ret["client"].rec.version = 2

\* C9 as claimed: a record whose status is Locked is never changed again:
\* UpdateUnvettedRecord, UpdateVettedMetadata and SetUnvettedStatus on it all
\* fail, and its files, metadata, status and version stay as they were.
C9_LockedIsFinal ==
  [][\A tok \in Tokens :
      (/\ Body("client")
       /\ Published(tok).status = MDStatusLocked
       /\ ret'["client"].tok = tok
       /\ ret'["client"].op \in
            {"UpdateUnvettedRecord", "UpdateVettedMetadata", "SetUnvettedStatus"}) =>
        /\ ret'["client"].err # OK
        /\ Published(tok)' = Published(tok)
        /\ Staged(tok)' \in {NoRec, Published(tok)}]_vars

\* A task holds the lock from the return of lock.Lock to its deferred unlock.
Holds(t) == pc[t] \in {"locked", "unlock"}

\* C3: at most one task holds the filesystem lock at any time, and every step
\* that modifies either repository or the Anchor State DB is taken by the
\* task that holds the lock.
C3_LockedModification ==
  /\ [](\A t \in Tasks : Holds(t) => lock = t)
  /\ [][(repoVars' # repoVars \/ db' # db) =>
          \E t \in Tasks :
            /\ lock = t
            /\ Body(t)
            /\ \A u \in Tasks \ {t} : pc'[u] = pc[u]]_vars

C3_Witness ==
  /\ lock = "fsck"
  /\ pc["fsck"] = "unlock"
  /\ ret["fsck"].err = OK
  /\ Len(vlog) > 0
  /\ vlog[Len(vlog)].kind = "conf"
  /\ pc["client"] = "idle"
  /\ pc["cron"] = "lockwait"

\* C5: once Close has completed, New, UpdateUnvettedRecord,
\* UpdateVettedMetadata, GetUnvetted, GetVetted, SetUnvettedStatus and
\* Inventory return Shutdown, a run of anchorAllRepos returns an error and
\* creates no anchor commit, and none of them changes either tier.
C5_Shutdown ==
  [][\A t \in {"client", "cron"} :
      (/\ shutdown
       /\ Body(t)
       /\ ret'[t].op \in {"New", "UpdateUnvettedRecord", "UpdateVettedMetadata",
                          "GetUnvetted", "GetVetted", "SetUnvettedStatus",
                          "Inventory", "anchorAllRepos"}) =>
        /\ ret'[t].err = ErrShutdown
        /\ repoVars' = repoVars]_vars

C5_Witness ==
  /\ shutdown
  /\ pc["cron"] = "unlock"
  /\ ret["cron"].op = "anchorAllRepos"
  /\ ret["cron"].err = ErrShutdown
  /\ Len(vlog) > 0
  /\ \A i \in 1..Len(vlog) : vlog[i].kind # "anchor"

\* The confirmation commits of merkle root m written after commit i.
ConfirmationsAfter(i, m) ==
  {j \in (i + 1)..Len(vlog) : vlog[j].kind = "conf" /\ vlog[j].mr = m}

Unconfirmed == {db.unconfirmed[i] : i \in 1..Len(db.unconfirmed)}

\* C6 as claimed: the merkle root of every anchor commit on publication
\* master is either named by exactly one later anchor-confirmation commit or
\* is in the unconfirmed set of the Anchor State DB, never both.
C6_ConfirmedOrUnconfirmed ==
  \A i \in 1..Len(vlog) :
    vlog[i].kind = "anchor" =>
      LET m == vlog[i].mr IN
      (Cardinality(ConfirmationsAfter(i, m)) = 1) # (m \in Unconfirmed)

\* C7: every anchor-confirmation commit on publication master comes strictly
\* after the anchor commit of the merkle root it names, whether the watcher or
\* the startup fsck wrote it.
C7_ConfirmationAfterAnchor ==
  \A j \in 1..Len(vlog) :
    vlog[j].kind = "conf" =>
      \E i \in 1..(j - 1) : vlog[i].kind = "anchor" /\ vlog[i].mr = vlog[j].mr

C7_Witness ==
  \E j \in 1..Len(vlog) :
    /\ vlog[j].kind = "conf"
    /\ \E i \in 1..(j - 1) : vlog[i].kind = "anchor" /\ vlog[i].mr = vlog[j].mr

\* No record commit has been written since the last anchor commit: whatever
\* follows it on publication master are anchor confirmations.
AnchoredHead ==
  \E i \in 1..Len(vlog) :
    /\ vlog[i].kind = "anchor"
    /\ \A j \in (i + 1)..Len(vlog) : vlog[j].kind = "conf"

\* C8 as claimed: a run of anchorAllRepos that follows an anchoring run with
\* no record mutation in between, with or without a confirmation pass in
\* between, finds nothing to do, creates no commit and returns success.
C8_NothingToDo ==
  [][(Body("cron") /\ ~shutdown /\ AnchoredHead) =>
       /\ ret'["cron"].err = OK
       /\ ret'["cron"].to = ErrNothingToDo
       /\ vlog' = vlog]_vars

\* The tasks that take the lock (the client, the anchor cron and the startup
\* fsck) contending for it.
NextW ==
  \/ \E t \in Tasks : Lock(t)
  \/ \E t \in Tasks : LockTimeout(t)
  \/ \E t \in Tasks : Unlock(t)
  \/ ClientCall
  \/ New(CTokens, NewMetadata, NewFiles, NoFaults)
  \/ UpdateUnvettedRecord(CTokens, Nothing, Nothing, {{<<"b", "y">>}}, Nothing, NoFaults)
  \/ UpdateVettedMetadata(CTokens, {{<<1, "w">>}}, Nothing, NoFaults)
  \/ SetUnvettedStatus(CTokens, {MDStatusVetted}, Nothing, NoFaults)
  \/ GetUnvetted(CTokens)
  \/ GetVetted(CTokens)
  \/ Inventory
  \/ Close
  \/ anchorAllReposCronJob
  \/ AnchorAllRepos({{}, {"timestamp"}})
  \/ fsck
  \/ \E t \in Tasks : AfterAnchorVerify(t, {{}, {"vcommit"}})
  \/ fsckVerify(NoFaults)
  \/ fsckReturn
  \/ Restart

\* The steps of a task as its position shows them: the locked part of its
\* operation reaches the return, the deferred unlock runs, and a call of
\* lock.Lock returns (with the lock, or with the timeout error).
Returns(t) == pc[t] = "locked" /\ pc' = [pc EXCEPT ![t] = "unlock"]

Releases(t) == pc[t] = "unlock" /\ pc' = [pc EXCEPT ![t] = Resume(t)]

LockReturns(t) ==
  /\ pc[t] = "lockwait"
  /\ \E p \in {"locked", Home(t)} : pc' = [pc EXCEPT ![t] = p]

\* Scheduling: every git command and every request to the timestamp service
\* terminates, so a task that holds the lock runs to its return and through
\* the deferred unlock, and every call of lock.Lock returns.
SpecW ==
  /\ Init
  /\ [][NextW]_vars
  /\ \A t \in Tasks :
       WF_pc(Returns(t)) /\ WF_pc(Releases(t)) /\ WF_pc(LockReturns(t))

\* C4 as claimed: whenever an operation returns the lock it acquired has been
\* released, so a task waiting for the lock eventually acquires it.
C4_WaiterAcquires ==
  /\ [](\A t \in Tasks : lock = t => Holds(t))
  /\ \A t \in Tasks : (pc[t] = "lockwait") ~> (pc[t] = "locked")

\* C4 amended: whenever New, UpdateUnvettedRecord, UpdateVettedMetadata,
\* GetUnvetted, GetVetted, SetUnvettedStatus, Inventory, Close, anchorAllRepos
\* or afterAnchorVerify returns, on success or on any error path, the lock it
\* acquired has been released, so the lock is free again after every
\* operation; a task waiting for the lock then acquires it, unless its wait
\* has lasted LockDuration and its call of Lock has returned the timeout error.
C4_LockReleased ==
  /\ [](\A t \in Tasks : lock = t => Holds(t))
  /\ \A t \in Tasks : (lock = t) ~> (lock = "none")
  /\ \A t \in Tasks : (pc[t] = "lockwait") ~> (pc[t] \in {"locked", Home(t)})

C4_Witness ==
  /\ lock = "client"
  /\ pc["client"] = "unlock"
  /\ ret["client"].err \notin {OK, ErrShutdown}
  /\ pc["cron"] = "lockwait"

IsStateTransitionError(e) ==
  \E from \in MDStatus, to \in MDStatus : e = StateTransitionError(from, to)

AnchorRecords == db.anchors

\* C12 as claimed: after anchorAllRepos succeeds with at least one unanchored
\* commit on publication master, publication master has exactly one new
\* commit, its subject is `Anchor M`, an unverified anchor record for M is
\* stored in the Anchor State DB, and M is a member of the unconfirmed set.
C12_AnchorRecorded ==
  [][(/\ Body("cron")
      /\ ret'["cron"].op = "anchorAllRepos"
      /\ ret'["cron"].err = OK
      /\ ret'["cron"].to = OK) =>
       /\ Len(vlog') = Len(vlog) + 1
       /\ SubSeq(vlog', 1, Len(vlog)) = vlog
       /\ vlog'[Len(vlog')].kind = "anchor"
       /\ LET M == vlog'[Len(vlog')].mr IN
          /\ M = AnchorKey(deltaCommits(vlog, readLastAnchorRecord(db)).digests)
          /\ \E a \in AnchorRecords' : a.key = M /\ ~a.verified
          /\ M \in Unconfirmed']_vars

\* The confirmation commits of merkle root m that a step adds to publication
\* master.
NewConfirmations(m) ==
  {j \in (Len(vlog) + 1)..Len(vlog') : vlog'[j].kind = "conf" /\ vlog'[j].mr = m}

\* C13 as claimed: after a confirmation pass in which the authority reports
\* merkle root M as confirmed (non-zero chain timestamp), publication master
\* has one further commit with subject `Anchor confirmation M` (which adds the
\* file anchors/<M>), M is no longer in the unconfirmed set, and the stored
\* anchor record for M is marked verified.
C13_ConfirmationRecorded ==
  [][\A t \in {"watcher", "fsck"} :
      (/\ Body(t)
       /\ ret'[t].op = "afterAnchorVerify"
       /\ ret'[t].err = OK) =>
        \A i \in 1..Len(vrs[t]) :
          vrs[t][i].ts # 0 =>
            LET M == vrs[t][i].digest IN
            /\ Cardinality(NewConfirmations(M)) = 1
            /\ M \notin Unconfirmed'
            /\ \E a \in AnchorRecords' : a.key = M /\ a.verified]_vars

\* C14 as claimed: a verify reply with chain_timestamp == 0 for merkle root M
\* is recovered locally: the confirmation pass (started by the watcher or by
\* fsck) does not fail because of it, writes no confirmation commit for M, and
\* leaves M in the unconfirmed set.
C14_PendingRecovered ==
  [][\A t \in {"watcher", "fsck"} :
      (/\ Body(t)
       /\ ret'[t].op = "afterAnchorVerify"
       /\ ~ret'[t].faulted) =>
        \A i \in 1..Len(vrs[t]) :
          vrs[t][i].ts = 0 =>
            LET M == vrs[t][i].digest IN
            /\ ret'[t].err = OK
            /\ NewConfirmations(M) = {}
            /\ M \in Unconfirmed => M \in Unconfirmed']_vars

\* C15 as claimed: if anchoring the publication tier fails at any step (fsck,
\* delta computation, record creation, submission to the timestamp client,
\* audit-trail append, stage, commit), then on return publication master has
\* no new commit, the publication working tree has no uncommitted change (the
\* audit-trail file is as before), and the unconfirmed set is as before.
C15_FailedAnchorLeavesNothing ==
  [][(/\ Body("cron")
      /\ ret'["cron"].op = "anchorAllRepos"
      /\ ret'["cron"].to \notin {OK, ErrNothingToDo, "none"}) =>
       /\ ret'["cron"].err # OK
       /\ vlog' = vlog
       /\ vdirty' = vdirty
       /\ Unconfirmed' = Unconfirmed]_vars

RecordOps ==
  {"New", "UpdateUnvettedRecord", "UpdateVettedMetadata", "SetUnvettedStatus"}

\* C16 as claimed: when the inner routine of New, UpdateUnvettedRecord,
\* UpdateVettedMetadata or SetUnvettedStatus fails, then on return staging has
\* no uncommitted changes and no branch that the failed operation created
\* (<token> for New and for an update that created the branch, <token>_tmp
\* for UpdateVettedMetadata), in either tier.
C16_FailureUnwound ==
  [][(/\ Body("client")
      /\ ret'["client"].op \in RecordOps
      /\ ret'["client"].err \notin {OK, ErrNoChanges, ErrShutdown}) =>
       /\ ~udirty'
       /\ \A b \in BranchNames : ubr'[b].ex => ubr[b].ex
       /\ vbr' \subseteq vbr]_vars

\* An UpdateUnvettedRecord that adds and deletes no file and appends and
\* overwrites no metadata stream.
EmptyChangeset == <<{}, {}, {}, {}>>

\* The record UpdateUnvettedRecord finds for a token: the one on its staging
\* branch, or else the published one.
CurrentRec(tok) == IF ubr[tok].ex THEN Staged(tok) ELSE Published(tok)

\* C17 as claimed: UpdateUnvettedRecord with an empty changeset (no file added
\* or deleted, no metadata appended or overwritten) returns NoChanges and
\* leaves the commit graph of both tiers unchanged: no new commit and no new
\* branch, for a record in any updatable status including Vetted.
C17_EmptyUpdateNoChanges ==
  [][\A tok \in Tokens :
      (/\ Body("client")
       /\ ret'["client"].op = "UpdateUnvettedRecord"
       /\ ret'["client"].tok = tok
       /\ ret'["client"].arg = EmptyChangeset
       /\ UpdatableStatus(CurrentRec(tok).status)) =>
        /\ ret'["client"].err = ErrNoChanges
        /\ vlog' = vlog
        /\ \A b \in BranchNames : ubr'[b].commits = ubr[b].commits
        /\ \A b \in BranchNames : ubr'[b].ex = ubr[b].ex
        /\ vbr' = vbr]_vars

\* The token names no record: it has no branch in staging and no directory on
\* publication master.
Unknown(tok) == ~ubr[tok].ex /\ Published(tok) = NoRec

\* C18: UpdateUnvettedRecord on a token that names no record in either tier
\* returns RecordNotFound and has no side effect on either tier: no branch is
\* created, no commit is made, and staging ends on master.
C18_UnknownTokenNotFound ==
  [][\A tok \in Tokens :
      (/\ Body("client")
       /\ ret'["client"].op = "UpdateUnvettedRecord"
       /\ ret'["client"].tok = tok
       /\ Unknown(tok)) =>
        /\ ret'["client"].err = ErrRecordNotFound
        /\ ret'["client"].rec = NoRec
        /\ vlog' = vlog
        /\ vbr' = vbr
        /\ ubr' = ubr
        /\ ucur' = Master
        /\ ~udirty'
        /\ ~vdirty']_vars

C18_Witness ==
  /\ pc["client"] = "unlock"
  /\ ret["client"].op = "UpdateUnvettedRecord"
  /\ ret["client"].err = ErrRecordNotFound
  /\ ret["client"].arg # EmptyChangeset
  /\ Unknown(ret["client"].tok)
  /\ \E other \in Tokens : Published(other) # NoRec

\* The record store under a sequential client that submits records of several
\* shapes and adds, replaces and deletes their files.
NewMetadataR == {{}, {<<1, "h">>, <<12, "g">>}}
NewFilesR == {{<<"a", "x">>}, {<<"a", "x">>, <<"b", "x">>}}
FilesAddR == {{}, {<<"b", "x">>}, {<<"a", "y">>}}
FilesDelR == {{}, {"a"}, {"b"}}

NextR ==
  \/ Lock("client")
  \/ Unlock("client")
  \/ ClientCall
  \/ New(Tokens, NewMetadataR, NewFilesR, NoFaults)
  \/ UpdateUnvettedRecord(CTokens, Nothing, Nothing, FilesAddR, FilesDelR, NoFaults)
  \/ SetUnvettedStatus(CTokens, {MDStatusVetted, MDStatusCensored}, Nothing, NoFaults)
  \/ GetUnvetted(Tokens)
  \/ GetVetted(CTokens)

SpecR == Init /\ [][NextR]_vars

\* The Merkle root over the SHA-256 digests of the payloads of a set of files.
FileMerkle(files) ==
  {<<Digest(f[2]), Cardinality({g \in files : g[2] = f[2]})>> : f \in files}

\* C19: after any sequence of successful New, UpdateUnvettedRecord (adding and
\* deleting files) and SetUnvettedStatus calls, every record's
\* RecordMetadata.merkle equals the Merkle root over the SHA-256 digests of
\* exactly the files the record currently holds.
C19_MerkleOfFiles ==
  /\ \A tok \in Tokens :
       /\ Staged(tok).merkle = FileMerkle(Staged(tok).files)
       /\ Published(tok).merkle = FileMerkle(Published(tok).files)
  /\ \A i \in 1..Len(vlog) : vlog[i].rec.merkle = FileMerkle(vlog[i].rec.files)
  /\ (/\ pc["client"] = "unlock"
      /\ ret["client"].op \in {"New", "UpdateUnvettedRecord"}
      /\ ret["client"].err = OK) =>
       ret["client"].rec.merkle = FileMerkle(Staged(ret["client"].tok).files)

C19_Witness ==
  \E tok \in Tokens :
    /\ Published(tok).status = MDStatusVetted
    /\ Published(tok).version = 3
    /\ Published(tok).files = {<<"a", "y">>, <<"b", "x">>}
    /\ Published(tok).merkle = {<<Digest("y"), 1>>, <<Digest("x"), 1>>}

\* C20: for every valid input, New(metadata, files) followed by GetUnvetted of
\* the returned token returns the same set of files (name and payload) and the
\* same metadata streams (id and payload) that were submitted, with status
\* Unvetted and version 1.
C20_NewGetRoundTrip ==
  (/\ pc["client"] = "unlock"
   /\ ret["client"].op = "New"
   /\ ret["client"].err = OK) =>
     LET got == GetUnvetted_(Repo, shutdown, ret["client"].tok) IN
     /\ got.err = OK
     /\ got.rec.files = ret["client"].arg[2]
     /\ got.rec.md = ret["client"].arg[1]
     /\ got.rec.status = MDStatusUnvetted
     /\ got.rec.version = 1

C20_Witness ==
  /\ pc["client"] = "unlock"
  /\ ret["client"].op = "New"
  /\ ret["client"].err = OK
  /\ ret["client"].arg = <<{<<1, "h">>, <<12, "g">>}, {<<"a", "x">>, <<"b", "x">>}>>
  /\ GetUnvetted_(Repo, shutdown, ret["client"].tok).err = OK
  /\ \E other \in Tokens : other # ret["client"].tok /\ Staged(other) # NoRec

\* The commits of publication master that match neither marker.
RecordCommits == {i \in 1..Len(vlog) : vlog[i].kind \notin {"anchor", "conf"}}

AnchorCommits == {j \in 1..Len(vlog) : vlog[j].kind = "anchor"}

\* C21 as claimed: in every state, each commit on publication master that
\* matches neither marker and is older than the latest anchor commit has its
\* extended digest in the stored anchor record of exactly one anchor commit:
\* it is never left out of every anchor and never included in two anchors.
C21_AnchoredExactlyOnce ==
  \A i \in RecordCommits :
    (\E j \in AnchorCommits : j > i) =>
      Cardinality({j \in AnchorCommits :
                     \E a \in AnchorRecords :
                       a.key = vlog[j].mr /\ extendSHA1(i) \in a.key}) = 1

\* The client closing the backend while the anchor cron and the confirmation
\* watcher run.
NextS ==
  \/ \E t \in Tasks : Lock(t)
  \/ \E t \in Tasks : LockTimeout(t)
  \/ \E t \in Tasks : Unlock(t)
  \/ ClientCall
  \/ New(CTokens, NewMetadata, NewFiles, NoFaults)
  \/ SetUnvettedStatus(CTokens, {MDStatusVetted}, Nothing, NoFaults)
  \/ GetVetted(CTokens)
  \/ Close
  \/ anchorAllReposCronJob
  \/ AnchorAllRepos(NoFaults)
  \/ periodicAnchorChecker
  \/ anchorChecker

\* Scheduling: as for SpecW, and the select of periodicAnchorChecker returns
\* (g.exit is closed or the timer fires) and anchorChecker runs to its return.
SpecS ==
  /\ Init
  /\ [][NextS]_vars
  /\ \A t \in Tasks :
       WF_pc(Returns(t)) /\ WF_pc(Releases(t)) /\ WF_pc(LockReturns(t))
  /\ WF_pc(periodicAnchorChecker)
  /\ WF_pc(anchorChecker)

\* Close has run to its return and released the lock.
CloseCompleted ==
  /\ shutdown
  /\ exitClosed
  /\ ~(pc["client"] = "unlock" /\ ret["client"].op = "Close")

\* The cron invokes anchorAllRepos in this step.
CronInvokes == pc["cron"] = "idle" /\ pc'["cron"] = "lockwait"

\* C22 as claimed: after Close completes, both periodic tasks stop: the
\* confirmation watcher eventually exits its loop, and the anchor cron no
\* longer invokes anchorAllRepos.
C22_TasksStop ==
  /\ CloseCompleted ~> (pc["watcher"] = "exited")
  /\ [][CloseCompleted => ~CronInvokes]_vars

\* fsck has been invoked and has not returned.
FsckRunning ==
  pc["fsck"] \in {"walk", "lockwait", "locked", "unlock", "verify", "verified"}

\* C23 as claimed: every invocation of fsck runs with the lock held by the
\* invoking task from the start of its history walk until it returns, so no
\* other task can commit to the publication tier while fsck classifies and
\* verifies the history.
C23_FsckHoldsLock ==
  /\ [](FsckRunning => lock = "fsck")
  /\ [][(FsckRunning /\ vlog' # vlog) => Body("fsck")]_vars

\* ------------------------------------------------------------- newUniqueID
MaxDirs == 11

ErrIO == "IOError"

IDFaults == {{}, {"readdir"}, {"mkdir"}}

\* The biggest record id among the directories of the staging tree whose name
\* parses as an unsigned number (the directories named by a token do not).
LastID(dirs) ==
  LET ids == {ParseUint(d) : d \in dirs}
  IN IF ids = {} THEN 0 ELSE CHOOSE p \in ids : \A q \in ids : q <= p

newUniqueIDMutant(r, flt) ==
  LET id == LastID(r.udirs) + 1 IN
  IF "readdir" \in flt \/ "mkdir" \in flt THEN [r |-> r, err |-> ErrIO, id |-> 0]
  ELSE [r |-> r, err |-> OK, id |-> id]

\* newUniqueID, once lock.Lock has returned: id is a uint64, and the ids of
\* the model stay far below 2^64.
newUniqueID(r, flt) ==
  LET id == LastID(r.udirs) + 1 IN
  IF "readdir" \in flt \/ "mkdir" \in flt THEN [r |-> r, err |-> ErrIO, id |-> 0]
  ELSE [r |-> [r EXCEPT !.udirs = @ \cup {FormatUint(id)}], err |-> OK, id |-> id]

\* A successful call returns with the lock held and the caller releases it; a
\* failed one returns with the lock held and nothing releases it.
NewUniqueID(faults) ==
  \E flt \in faults :
    LET res == newUniqueID(Repo, flt) IN
    /\ pc["client"] = "locked"
    /\ Cardinality(udirs) < MaxDirs
    /\ Bounded(res.r)
    /\ SetRepo(res.r)
    /\ ret' = [ret EXCEPT !["client"] =
                 [Ret("newUniqueID", "none", "none", res.err, NoRec, flt)
                    EXCEPT !.arg = <<res.id>>]]
    /\ issued' = IF res.err = OK THEN Append(issued, res.id) ELSE issued
    /\ pc' = [pc EXCEPT !["client"] = IF res.err = OK THEN "unlock" ELSE "failed"]
    /\ UNCHANGED <<lock, shutdown, exitClosed, db, vrs, gitDigests>>

\* The staging tree as earlier runs of newUniqueID have left it.
DirsBefore == {0, 9}

InitU ==
  /\ lock = "none"
  /\ shutdown = FALSE
  /\ exitClosed = FALSE
  /\ pc = [t \in Tasks |-> Home(t)]
  /\ ret = [t \in Tasks |-> NoRet]
  /\ vlog = <<>>
  /\ vbr = {}
  /\ vdirty = FALSE
  /\ ulen = 0
  /\ ubr = [b \in BranchNames |-> NoBranch]
  /\ ucur = Master
  /\ udirty = FALSE
  /\ db = EmptyDB
  /\ vrs = [t \in Tasks |-> <<>>]
  /\ \E n \in DirsBefore :
       /\ udirs = {FormatUint(i) : i \in 1..n}
       /\ issued = [i \in 1..n |-> i]
       /\ gitDigests = {}

NextU ==
  \/ Lock("client")
  \/ Unlock("client")
  \/ ClientCall
  \/ NewUniqueID(IDFaults)
  \/ New(CTokens, NewMetadata, NewFiles, NewFaults)
  \/ SetUnvettedStatus(CTokens, {MDStatusVetted, MDStatusCensored}, Nothing, NoFaults)
  \/ GetUnvetted(CTokens)

SpecU == InitU /\ [][NextU]_vars

\* C24: successive successful invocations of newUniqueID (the caller releasing
\* the lock in between) return strictly increasing ids: each returned id is
\* greater than every id returned before.
C24_StrictlyIncreasing ==
  \A i \in 1..Len(issued) : \A j \in (i + 1)..Len(issued) : issued[i] < issued[j]

C24_Witness ==
  /\ Len(issued) >= 11
  /\ issued[Len(issued)] = 11
  /\ pc["client"] = "unlock"
  /\ ret["client"].op = "newUniqueID"
  /\ ret["client"].arg = <<11>>
  /\ ubr["t1"].ex

\* C25 as claimed: UpdateUnvettedRecord proceeds only when a staging branch
\* named <token> exists at the time of the call; for every token without such
\* a branch, including a token whose record is on publication master, it
\* returns RecordNotFound and creates no branch.
C25_BranchRequired ==
  [][\A tok \in Tokens :
      (/\ Body("client")
       /\ ret'["client"].op = "UpdateUnvettedRecord"
       /\ ret'["client"].tok = tok) =>
        /\ ret'["client"].err = OK => ubr[tok].ex
        /\ ~ubr[tok].ex =>
             /\ ret'["client"].err = ErrRecordNotFound
             /\ \A b \in BranchNames : ubr'[b].ex = ubr[b].ex]_vars

\* C25 amended: UpdateUnvettedRecord proceeds when a staging branch named
\* <token> exists at the time of the call or, when there is none, when the
\* record <token> is on publication master: it then creates the branch
\* <token> from master and updates the published record on it. For every
\* token with neither a branch nor a published record it returns
\* RecordNotFound and creates no branch.
C25_BranchOrPublished ==
  [][\A tok \in Tokens :
      (/\ Body("client")
       /\ ret'["client"].op = "UpdateUnvettedRecord"
       /\ ret'["client"].tok = tok) =>
        /\ ret'["client"].err = OK => (ubr[tok].ex \/ Published(tok) # NoRec)
        /\ (~ubr[tok].ex /\ Published(tok) # NoRec) =>
             /\ ret'["client"].err \in {OK, ErrNoChanges, ErrFileNotFound, ErrEmpty}
             /\ ubr'[tok].ex
             /\ ubr'[tok].base = Len(vlog)
             /\ ret'["client"].err = OK =>
                  /\ Staged(tok)'.status = MDStatusIterationUnvetted
                  /\ Staged(tok)'.version = Published(tok).version + 1
                  /\ Published(tok)' = Published(tok)
        /\ (~ubr[tok].ex /\ Published(tok) = NoRec) =>
             /\ ret'["client"].err = ErrRecordNotFound
             /\ \A b \in BranchNames : ubr'[b].ex = ubr[b].ex]_vars

C25_Witness ==
  /\ pc["client"] = "unlock"
  /\ ret["client"].op = "UpdateUnvettedRecord"
  /\ ret["client"].err = OK
  /\ Published(ret["client"].tok).status = MDStatusVetted
  /\ Published(ret["client"].tok).version = 2
  /\ Staged(ret["client"].tok).status = MDStatusIterationUnvetted
  /\ Staged(ret["client"].tok).version = 3
  /\ Len(ubr[ret["client"].tok].commits) = 1

\* The commands of rebasePR that run before `git rebase <id>` on the
\* publication tier, and those that run from it on, up to the return of the
\* operation.
EarlySteps == {"prcheckout", "prpull", "prcheckoutid", "prrebase", "push"}

LateSteps ==
  {"vrebase", "vdel", "synccheckout", "syncpull", "del", "checkout2"}

\* SetUnvettedStatus on tok reaches rebasePR: the record is on its branch and
\* the transition is a publication.
Promotes(tok, to) == ubr[tok].ex /\ PublishTransition(LoadedStatus(tok), to)

\* C26: in the promotion protocol, publication master advances only in the
\* step that rebases branch <id> on the publication tier: if any earlier step
\* (checkout, pull, rebase on staging, push) fails, publication master is
\* unchanged and the staging branch <id> still exists.
C26_AdvanceOnlyAtRebase ==
  [][\A tok \in Tokens :
      LET r == ret'["client"] IN
      /\ (/\ Body("client")
          /\ r.op = "SetUnvettedStatus"
          /\ r.tok = tok
          /\ Promotes(tok, r.to)) =>
           /\ r.fault \cap EarlySteps # {} => r.err # OK
           /\ (r.err # OK /\ r.fault \cap LateSteps = {}) =>
                /\ vlog' = vlog
                /\ ubr'[tok].ex
                /\ Published(tok)' = Published(tok)
           /\ vlog' # vlog => r.fault \cap (EarlySteps \cup {"write", "vrebase"}) = {}
      /\ (/\ Body("client")
          /\ r.op = "UpdateVettedMetadata"
          /\ r.tok = tok) =>
           /\ r.fault \cap EarlySteps # {} => (r.err # OK /\ vlog' = vlog)
           /\ vlog' # vlog =>
                r.fault \cap (EarlySteps \cup {"pull", "write", "vrebase"}) = {}]_vars

C26_Witness ==
  /\ pc["client"] = "unlock"
  /\ ret["client"].op = "SetUnvettedStatus"
  /\ ret["client"].to = MDStatusVetted
  /\ ret["client"].fault = {"push"}
  /\ ret["client"].err = ErrGit
  /\ Staged(ret["client"].tok).status = MDStatusVetted
  /\ Published(ret["client"].tok) = NoRec
  /\ vlog = <<>>

\* The commands that run once `git rebase <id>` has advanced publication
\* master: the rest of rebasePR and the last checkout of master.
AfterPublication == {"vdel", "synccheckout", "syncpull", "del", "checkout2"}

C28_VersionCounts ==
  [][\A tok \in Tokens :
      LET r == ret'["client"]
          before == CurrentRec(tok).version
          after == CurrentRec(tok)'.version
      IN
      /\ after >= before
      /\ (Body("client") /\ r.tok = tok) =>
           /\ (r.op = "New" /\ r.err = OK) => after = 1
           /\ (r.op \in {"UpdateUnvettedRecord", "SetUnvettedStatus"} /\ r.err = OK) =>
                after = before + 1
           /\ (r.op \in RecordOps /\ r.err # OK) => after = before
           /\ r.op = "UpdateVettedMetadata" => after = before]_vars

\* ------------------------------------------------------------ deltaCommits
MaxLog == 3

\* Histories of the publication tier: record commits, anchor commits and
\* anchor confirmations in any order.
HistoryCommits ==
  {Commit("md", "t1", NoRec, {}), Commit("anchor", "none", NoRec, {}),
   Commit("conf", "none", NoRec, {})}

Histories == UNION {[1..n -> HistoryCommits] : n \in 1..MaxLog}

\* The last anchor handed to deltaCommits: none, or the extended digest of a
\* commit of the history.
LastAnchors(log) == {<<>>} \cup {extendSHA1(i) : i \in 1..Len(log)}

InitD ==
  /\ lock = "none"
  /\ shutdown = FALSE
  /\ exitClosed = FALSE
  /\ pc = [t \in Tasks |-> Home(t)]
  /\ ret = [t \in Tasks |-> NoRet]
  /\ vlog \in Histories
  /\ vbr = {}
  /\ vdirty = FALSE
  /\ ulen = Len(vlog)
  /\ ubr = [b \in BranchNames |-> NoBranch]
  /\ ucur = Master
  /\ udirty = FALSE
  /\ \E last \in LastAnchors(vlog) : db = [EmptyDB EXCEPT !.last = last]
  /\ vrs = [t \in Tasks |-> <<>>]
  /\ udirs = {}
  /\ issued = <<>>
  /\ gitDigests = {}

\* anchorRepo calls deltaCommits with the lock held.
DeltaCommits ==
  /\ pc["cron"] = "locked"
  /\ LET dc == deltaCommits(vlog, readLastAnchorRecord(db)) IN
     ret' = [ret EXCEPT !["cron"] =
               [Ret("deltaCommits", "none", "none", dc.err, NoRec, {})
                  EXCEPT !.arg = dc.digests]]
  /\ pc' = [pc EXCEPT !["cron"] = "unlock"]
  /\ UNCHANGED <<lock, shutdown, exitClosed, repoVars, db, vrs, issued, gitDigests>>

NextD ==
  \/ anchorAllReposCronJob
  \/ Lock("cron")
  \/ DeltaCommits
  \/ Unlock("cron")

SpecD == InitD /\ [][NextD]_vars

\* The commits of the range since..head that are no anchor confirmations.
DeltaRange(log, since) ==
  IF since = <<>> THEN 1..Len(log) ELSE {i \in 1..Len(log) : i > since[1]}

DeltaExpected(log, since) ==
  {<<i, 0>> : i \in {j \in DeltaRange(log, since) : log[j].kind # "conf"}}

\* C29: deltaCommits(tier, since) returns exactly the commits of the range
\* since..head (since excluded, head included; the full history when since is
\* empty) whose subject does not match the anchor-confirmation marker, and
\* returns NothingToDo when that set is empty; anchor commits themselves are
\* not skipped.
C29_DeltaCommits ==
  (pc["cron"] = "unlock" /\ ret["cron"].op = "deltaCommits") =>
    LET got == ret["cron"].arg
        want == DeltaExpected(vlog, db.last)
    IN
    /\ want = {} => (ret["cron"].err = ErrNothingToDo /\ got = <<>>)
    /\ want # {} =>
         /\ ret["cron"].err = OK
         /\ {got[i] : i \in 1..Len(got)} = want
         /\ Len(got) = Cardinality(want)
         /\ \A i \in DeltaRange(vlog, db.last) :
              vlog[i].kind = "anchor" => \E k \in 1..Len(got) : got[k] = <<i, 0>>

C29_Witness ==
  /\ pc["cron"] = "unlock"
  /\ ret["cron"].op = "deltaCommits"
  /\ ret["cron"].err = OK
  /\ Len(vlog) = 3
  /\ vlog[1].kind = "md"
  /\ vlog[2].kind = "anchor"
  /\ vlog[3].kind = "conf"
  /\ db.last = <<1, 0>>
  /\ ret["cron"].arg = <<<<2, 0>>>>

\* ---------------------------------------------------------------- C30
\* The commits of a publication master that match neither marker and have an
\* anchor commit above them.
Precious(log) ==
  {extendSHA1(i) : i \in {k \in 1..Len(log) :
                            /\ ~regexAnchor(log[k])
                            /\ ~regexAnchorConfirmation(log[k])
                            /\ \E j \in (k + 1)..Len(log) : regexAnchor(log[j])}}

\* The commits of a publication master above its most recent anchor commit.
AboveLastAnchor(log) ==
  {extendSHA1(i) : i \in {k \in 1..Len(log) :
                            \A j \in k..Len(log) : ~regexAnchor(log[j])}}

FsckWalked == pc["fsck"] = "walk" /\ pc'["fsck"] # "walk"

FsckVerified == pc["fsck"] = "verify" /\ pc'["fsck"] = "verified"

\* C30: the set of precious digests fsck collects is exactly the set of
\* commits on publication master that match neither marker and are older than
\* at least one anchor commit; commits newer than the most recent anchor
\* commit are never in it, and fsck fails if any precious digest is not
\* reported OK by the authority.
C30_PreciousVerified ==
  /\ [][FsckWalked =>
          /\ gitDigests' = Precious(vlog)
          /\ gitDigests' \cap AboveLastAnchor(vlog) = {}]_vars
  /\ [][FsckVerified =>
          /\ ret'["fsck"].arg[1] = gitDigests
          /\ (\E d \in gitDigests : ret'["fsck"].arg[2][d] # ResultOK) =>
               ret'["fsck"].err # OK]_vars

C30_Witness ==
  /\ pc["fsck"] = "verified"
  /\ ret["fsck"].err = ErrFsck
  /\ Cardinality(gitDigests) = 2
  /\ \E d \in gitDigests : ret["fsck"].arg[2][d] = ResultOK
  /\ AboveLastAnchor(vlog) # {}

\* ---------------------------------------------------------------- C31
\* C31 as claimed: in one confirmation pass over several merkle roots, with
\* no git command failing, every root whose reply is confirmed gets its
\* confirmation commit, whatever its position in the list relative to the
\* roots whose reply is still pending or whose verify call failed.
C31_EveryConfirmedCommitted ==
  [][\A t \in {"watcher", "fsck"} :
      (/\ Body(t)
       /\ ret'[t].op = "afterAnchorVerify"
       /\ ~ret'[t].faulted) =>
        \A i \in 1..Len(vrs[t]) :
          vrs[t][i].ts # 0 => NewConfirmations(vrs[t][i].digest) # {}]_vars

\* ---------------------------------------------------------------- C32
\* The head of staging master is the head of publication master.
HeadsAgree == ulen = Len(vlog)

\* C32: whenever the lock is free and no operation has returned an error, the
\* head of staging master equals the head of publication master. The heads
\* agree at the start, only the locked part of an operation moves them, and
\* every operation that returns without an error (promotion, anchor and
\* confirmation among them) leaves them in agreement.
C32_StagingFollowsPublication ==
  /\ [](pc = [t \in Tasks |-> Home(t)] /\ vlog = <<>> => HeadsAgree)
  /\ [][(\A t \in Tasks : ~Body(t)) => (ulen' = ulen /\ vlog' = vlog)]_vars
  /\ [][\A t \in Tasks :
         (Body(t) /\ ret'[t].err = OK /\ HeadsAgree) => HeadsAgree']_vars

C32_Witness ==
  /\ pc["fsck"] = "unlock"
  /\ ret["fsck"].op = "afterAnchorVerify"
  /\ ret["fsck"].err = OK
  /\ Len(vlog) = 4
  /\ vlog[4].kind = "conf"
  /\ vlog[3].kind = "anchor"
  /\ HeadsAgree

\* ---------------------------------------------------------------- C33
\* The steps in which task t evaluates g.shutdown: the locked part of a client
\* operation or of anchorAllRepos, and the test the watcher makes when it
\* wakes up.
ReadsShutdown(t) ==
  \/ /\ t \in {"client", "cron"}
     /\ Body(t)
     /\ ret'[t].op \notin {"Close", "afterAnchorVerify"}
  \/ /\ t = "watcher"
     /\ pc[t] = "check"
     /\ pc'[t] # "check"

\* C33 as claimed: every read of the shutdown flag, by a client operation, the
\* anchor cron or the confirmation watcher, happens while the reading task
\* holds the lock, so no read can race with the write Close makes under the
\* lock.
C33_ShutdownReadLocked ==
  [][\A t \in Tasks : ReadsShutdown(t) => lock = t]_vars

\* ---------------------------------------------------------------- C34
\* C34 as claimed: whenever the lock is free, the staging tier's checked-out
\* branch is master: every operation (New, UpdateUnvettedRecord,
\* UpdateVettedMetadata, GetUnvetted, SetUnvettedStatus, Inventory,
\* anchorAllRepos, afterAnchorVerify) restores master before it releases the
\* lock, on success and on every error path.
C34_MasterWhenFree == lock = "none" => ucur = Master

\* ---------------------------------------------------------------- C35
\* The daemon started on a data directory that already holds a published
\* record, the anchor commit of its commit, and an Anchor State DB that lists
\* the root of that anchor as unconfirmed: New launches the watcher and the
\* cron and runs fsck.
PendingRec ==
  createMD(MDStatusVetted, 1, Hashes({<<"a", "x">>}), {<<"a", "x">>},
           {<<mdFileID(1), <<"h">>>>})

PendingRoot == AnchorKey(<<extendSHA1(1)>>)

InitP ==
  /\ lock = "none"
  /\ shutdown = FALSE
  /\ exitClosed = FALSE
  /\ pc = [t \in Tasks |-> IF t = "fsck" THEN "walk" ELSE Home(t)]
  /\ ret = [t \in Tasks |-> NoRet]
  /\ vlog = <<Commit("status", LockedToken, PendingRec, {}),
              Commit("anchor", "none", NoRec, PendingRoot)>>
  /\ vbr = {}
  /\ vdirty = FALSE
  /\ ulen = 2
  /\ ubr = [b \in BranchNames |-> NoBranch]
  /\ ucur = Master
  /\ udirty = FALSE
  /\ db = [last |-> extendSHA1(1),
           unconfirmed |-> <<PendingRoot>>,
           anchors |-> {[key |-> PendingRoot, verified |-> FALSE]}]
  /\ vrs = [t \in Tasks |-> <<>>]
  /\ udirs = {}
  /\ issued = <<>>
  /\ gitDigests = {}

NextP ==
  \/ \E t \in Tasks : Lock(t)
  \/ \E t \in Tasks : LockTimeout(t)
  \/ \E t \in Tasks : Unlock(t)
  \/ ClientCall
  \/ GetVetted(Tokens)
  \/ Close
  \/ anchorAllReposCronJob
  \/ AnchorAllRepos(NoFaults)
  \/ periodicAnchorChecker
  \/ anchorChecker
  \/ fsck
  \/ \E t \in Tasks : AfterAnchorVerify(t, NoFaults)
  \/ fsckVerify(NoFaults)
  \/ fsckReturn

SpecP == InitP /\ [][NextP]_vars

Full ==
  Len(vlog) + Sum([b \in BranchNames |-> Len(ubr[b].commits)], BranchNames)
    >= MaxCommits

\* The cron job fires, as long as the model has room for its anchor commit.
CronJob == ~Full /\ anchorAllReposCronJob

\* A client publishing records while the anchor cron and the confirmation
\* watcher keep running and every call of lock.Lock gets the lock.
NextT ==
  \/ \E t \in {"client", "cron"} : Lock(t)
  \/ \E t \in {"client", "cron"} : Unlock(t)
  \/ ClientCall
  \/ New(CTokens, NewMetadata, NewFiles, NoFaults)
  \/ SetUnvettedStatus(CTokens, {MDStatusVetted}, Nothing, NoFaults)
  \/ GetVetted(CTokens)
  \/ CronJob
  \/ AnchorAllRepos(NoFaults)
  \/ periodicAnchorChecker
  \/ anchorChecker

\* Scheduling: the cron fires on its schedule, the timer of the watcher
\* fires, no call of lock.Lock times out (a task that waits while the lock is
\* free again and again gets it), and a task that holds the lock runs to its
\* return and through the deferred unlock.
SpecT ==
  /\ Init
  /\ [][NextT]_vars
  /\ \A t \in {"client", "cron"} :
       SF_pc(Lock(t)) /\ WF_pc(Returns(t)) /\ WF_pc(Releases(t))
  /\ WF_pc(CronJob)
  /\ WF_pc(periodicAnchorChecker)
  /\ WF_pc(anchorChecker)

\* Commit i of publication master is among the digests of a later anchor.
Covered(i) ==
  \E j \in (i + 1)..Len(vlog) :
    vlog[j].kind = "anchor" /\ extendSHA1(i) \in vlog[j].mr

\* C37 as claimed: if the anchor cron and the confirmation watcher keep
\* running and no operation fails, then every commit made on publication
\* master is eventually covered by an anchor commit (as long as the model has
\* room for one), and the merkle root of every anchor commit eventually gets
\* a confirmation commit and is not in the unconfirmed set.
C37_AnchoredAndConfirmed ==
  [](\A t \in Tasks : ret[t].err = OK) =>
    /\ \A i \in 1..MaxCommits :
         (i \in RecordCommits) ~> (Covered(i) \/ Full)
    /\ \A i \in 1..MaxCommits :
         (i \in AnchorCommits) ~>
           (ConfirmationsAfter(i, vlog[i].mr) # {} /\ vlog[i].mr \notin Unconfirmed)

\* ---------------------------------------------------------------- C38
\* C38 as claimed: in every state reached with the lock free, each
\* token-named branch in staging holds a loadable RecordMetadata for that
\* token, so Inventory never fails with RecordNotFound; this holds also after
\* a New, UpdateUnvettedRecord or SetUnvettedStatus call that failed part-way.
C38_BranchesLoadable ==
  /\ [](lock = "none" => \A tok \in Tokens : ubr[tok].ex => Staged(tok) # NoRec)
  /\ [][(Body("client") /\ ret'["client"].op = "Inventory") =>
          ret'["client"].err # ErrRecordNotFound]_vars

\* ---------------------------------------------------------------- C39
\* newUniqueID has returned to the client.
NewUniqueIDReturned ==
  /\ ret["client"].op = "newUniqueID"
  /\ pc["client"] \in {"unlock", "failed"}

\* C39 as claimed: newUniqueID holds the lock on return if and only if it
\* succeeded: when it returns an error after having acquired the lock
\* (directory listing or directory creation failed), the lock is not held.
C39_LockHeldIffSuccess ==
  NewUniqueIDReturned => (lock = "client" <=> ret["client"].err = OK)

====
